---- MODULE Spec2Model ----
(***************************************************************************)
(* A model of the framing engine of go-wire (package wire): the message    *)
(* envelope written by WriteMessageWithEncodingN, parsed by                *)
(* ReadMessageWithEncodingN, the command registry makeEmptyMessage and the *)
(* message variants they dispatch to.                                      *)
(*                                                                         *)
(* Go's uint32/uint64 values do not fit TLC's integers, so every wire      *)
(* integer, length and byte count is kept as its eight little-endian       *)
(* base-256 digits (a "U64"); arithmetic is carried out digit by digit and *)
(* wraps at 2^64 as Go's does.  Byte strings (streams, payloads) are kept  *)
(* as chunks, a long stretch of one byte being a single counted run, so    *)
(* that a payload of 2^32 bytes is one chunk.                              *)
(***************************************************************************)
EXTENDS Integers, Sequences, FiniteSets, Bags, TLC

\* F applied to the value of v, v being computed once
With(v, F(_)) == CHOOSE out \in {F(x) : x \in {v}} : TRUE

----------------------------------------------------------------------------
(* 64-bit unsigned arithmetic on little-endian base-256 digits.             *)

Byte == 0..255

\* the uint64 value of a TLC integer 0 <= n < 2^31
U(n) ==
  << n % 256, (n \div 256) % 256, (n \div 65536) % 256, (n \div 16777216) % 256,
     0, 0, 0, 0 >>

U64Zero == U(0)

\* math.MaxUint32 as a uint64
MaxUint32 == << 255, 255, 255, 255, 0, 0, 0, 0 >>

\* 2^32, the first payload size that does not fit the header's length field
TwoPow32 == << 0, 0, 0, 0, 1, 0, 0, 0 >>

RECURSIVE LtFrom(_, _, _)
LtFrom(a, b, i) ==
  IF i = 0 THEN FALSE
  ELSE IF a[i] # b[i] THEN a[i] < b[i]
  ELSE LtFrom(a, b, i - 1)

\* a < b, a <= b, a > b on uint64
Lt(a, b) == LtFrom(a, b, 8)
Le(a, b) == ~Lt(b, a)
Gt(a, b) == Lt(b, a)

RECURSIVE AddFrom(_, _, _, _)
AddFrom(a, b, i, carry) ==
  IF i > 8 THEN << >>
  ELSE LET s == a[i] + b[i] + carry
       IN  << s % 256 >> \o AddFrom(a, b, i + 1, s \div 256)

\* a + b mod 2^64
Add(a, b) == AddFrom(a, b, 1, 0)

RECURSIVE SubFrom(_, _, _, _)
SubFrom(a, b, i, borrow) ==
  IF i > 8 THEN << >>
  ELSE LET d == a[i] - b[i] - borrow
       IN  << d % 256 >> \o SubFrom(a, b, i + 1, IF d < 0 THEN 1 ELSE 0)

\* a - b mod 2^64
Sub(a, b) == SubFrom(a, b, 1, 0)

RECURSIVE MulFrom(_, _, _, _)
MulFrom(a, k, i, carry) ==
  IF i > 8 THEN << >>
  ELSE LET p == a[i] * k + carry
       IN  << p % 256 >> \o MulFrom(a, k, i + 1, p \div 256)

\* a * k mod 2^64, for a TLC integer 0 <= k < 2^22
Mul(a, k) == MulFrom(a, k, 1, 0)

\* long division of a by a TLC integer 0 < d < 2^23: the digits of the
\* quotient, most significant first, then the remainder
RECURSIVE DivFrom(_, _, _, _)
DivFrom(a, d, i, rem) ==
  IF i = 0 THEN [q |-> << >>, r |-> rem]
  ELSE LET cur  == rem * 256 + a[i]
           rest == DivFrom(a, d, i - 1, cur % d)
       IN  [q |-> rest.q \o << cur \div d >>, r |-> rest.r]

\* floor(a / d) and a mod d
Div(a, d) == DivFrom(a, d, 8, 0).q
Mod(a, d) == DivFrom(a, d, 8, 0).r

\* the TLC integer of a uint64 below 2^31
Small(a) == a[1] + a[2] * 256 + a[3] * 65536 + a[4] * 16777216

IsSmall(a) == a[5] = 0 /\ a[6] = 0 /\ a[7] = 0 /\ a[8] = 0 /\ a[4] < 128

Min(a, b) == IF Lt(a, b) THEN a ELSE b

----------------------------------------------------------------------------
(* Byte strings, run-length encoded.                                        *)

\* A byte string is a sequence of chunks: a literal chunk holds its bytes, a
\* run chunk holds a byte and how many times it repeats.  Every string has
\* one form: a stretch of RunMin or more equal bytes is a run chunk and
\* everything between two runs is one literal chunk.
RunMin == 64

lit(v) == [k |-> "lit", v |-> v]

run(b, n) == [k |-> "run", b |-> b, n |-> n]

\* count copies of byte b as a tuple, count a TLC integer
copies(b, count) == SubSeq([i \in 1..count |-> b], 1, count)

\* how many bytes equal to x the tuple v ends with, and starts with
trailing(v, x) ==
  LET others == {i \in 1..Len(v) : v[i] # x}
  IN  IF others = {} THEN Len(v)
      ELSE Len(v) - (CHOOSE i \in others : \A j \in others : j <= i)

leading(v, x) ==
  LET others == {i \in 1..Len(v) : v[i] # x}
  IN  IF others = {} THEN Len(v)
      ELSE (CHOOSE i \in others : \A j \in others : i <= j) - 1

\* a literal chunk unless v is empty
litOrNone(v) == IF v = << >> THEN << >> ELSE << lit(v) >>

\* n copies of byte b
Rep(b, n) ==
  IF n = U64Zero THEN << >>
  ELSE IF Lt(n, U(RunMin)) THEN << lit(copies(b, Small(n))) >>
  ELSE << run(b, n) >>

\* the chunks two adjacent chunks make
join(a, c) ==
  IF a.k = "lit" /\ c.k = "lit"
  THEN LET x  == c.v[1]
           k1 == trailing(a.v, x)
           k2 == leading(c.v, x)
       IN  IF k1 + k2 >= RunMin
           THEN litOrNone(SubSeq(a.v, 1, Len(a.v) - k1))
                \o << run(x, U(k1 + k2)) >>
                \o litOrNone(SubSeq(c.v, k2 + 1, Len(c.v)))
           ELSE << lit(a.v \o c.v) >>
  ELSE IF a.k = "lit"
  THEN LET k1 == trailing(a.v, c.b)
       IN  litOrNone(SubSeq(a.v, 1, Len(a.v) - k1))
           \o << run(c.b, Add(c.n, U(k1))) >>
  ELSE IF c.k = "lit"
  THEN LET k2 == leading(c.v, a.b)
       IN  << run(a.b, Add(a.n, U(k2))) >>
           \o litOrNone(SubSeq(c.v, k2 + 1, Len(c.v)))
  ELSE IF a.b = c.b THEN << run(a.b, Add(a.n, c.n)) >>
  ELSE << a, c >>

\* concatenation
Cat(s, t) ==
  IF s = << >> THEN t
  ELSE IF t = << >> THEN s
  ELSE SubSeq(s, 1, Len(s) - 1) \o join(s[Len(s)], t[1]) \o Tail(t)

\* the byte string of a tuple of byte values
RECURSIVE Bytes(_)
Bytes(bs) ==
  IF Len(bs) < RunMin THEN litOrNone(bs)
  ELSE Cat(Bytes(SubSeq(bs, 1, Len(bs) \div 2)),
           Bytes(SubSeq(bs, Len(bs) \div 2 + 1, Len(bs))))

chunkLen(c) == IF c.k = "lit" THEN U(Len(c.v)) ELSE c.n

\* len(s)
RECURSIVE BLen(_)
BLen(s) == IF s = << >> THEN U64Zero ELSE Add(chunkLen(s[1]), BLen(Tail(s)))

\* s[:n] and s[n:], for n <= len(s)
RECURSIVE Take(_, _)
Take(s, n) ==
  IF n = U64Zero \/ s = << >> THEN << >>
  ELSE IF Le(chunkLen(s[1]), n)
       THEN Cat(<< s[1] >>, Take(Tail(s), Sub(n, chunkLen(s[1]))))
       ELSE IF s[1].k = "lit" THEN << lit(SubSeq(s[1].v, 1, Small(n))) >>
       ELSE Rep(s[1].b, n)

RECURSIVE Drop(_, _)
Drop(s, n) ==
  IF n = U64Zero \/ s = << >> THEN s
  ELSE IF Le(chunkLen(s[1]), n)
       THEN Drop(Tail(s), Sub(n, chunkLen(s[1])))
       ELSE IF s[1].k = "lit"
       THEN Cat(<< lit(SubSeq(s[1].v, Small(n) + 1, Len(s[1].v))) >>, Tail(s))
       ELSE Cat(Rep(s[1].b, Sub(s[1].n, n)), Tail(s))

\* the byte values of a short byte string
RECURSIVE Unpack(_)
Unpack(s) ==
  IF s = << >> THEN << >>
  ELSE (IF s[1].k = "lit" THEN s[1].v ELSE copies(s[1].b, Small(s[1].n)))
       \o Unpack(Tail(s))

----------------------------------------------------------------------------
(* Program constants.                                                       *)

\* MessageHeaderSize: magic 4 + command 12 + length 4 + checksum 4
MessageHeaderSize == 24

\* CommandSize: the fixed size of a command in the header
CommandSize == 12

\* protocol versions (the feature thresholds of the version gate)
BIP0031Version == 60000
BIP0035Version == 60002
BIP0037Version == 70001
ProtocolVersion == 70016

\* SendHeadersVersion, FeeFilterVersion
SendHeadersVersion == 70012

FeeFilterVersion == 70013

\* BitcoinNet values: the magic of the main and of the test network
MainNet == << 227, 225, 243, 232, 0, 0, 0, 0 >>
TestNet == << 244, 229, 243, 244, 0, 0, 0, 0 >>

\* MaxVarIntPayload: the longest encoding of a variable length integer
MaxVarIntPayload == 9

\* MaxAssociationIDLen: the longest association ID of a stream message
MaxAssociationIDLen == 129

\* MaxUserAgentLen: the longest user agent / stream policy name
MaxUserAgentLen == 256

\* chainhash.HashSize
HashSize == 32

\* MaxInvPerMsg: the most inventory vectors a message may hold
MaxInvPerMsg == 50000

\* maxInvVectPayload: an inventory vector is a 4-byte type and a hash
maxInvVectPayload == 36

\* the compressed public key size and the largest DER signature size
SECP256K1_COMP_PUB_KEY_SIZE_IN_BYTES == 33

SECP256K1_DER_SIGN_MAX_SIZE_IN_BYTES == 72

\* minTxPayload: the smallest payload a transaction can have
minTxPayload == 10

\* the chunk size of discardInput: 10 * 1024
discardChunk == 10240

----------------------------------------------------------------------------
(* Commands, as the bytes of their strings.                                 *)

\* "version"
CmdVersion == << 118, 101, 114, 115, 105, 111, 110 >>

\* "verack"
CmdVerAck == << 118, 101, 114, 97, 99, 107 >>

\* "getaddr"
CmdGetAddr == << 103, 101, 116, 97, 100, 100, 114 >>

\* "addr"
CmdAddr == << 97, 100, 100, 114 >>

\* "getblocks"
CmdGetBlocks == << 103, 101, 116, 98, 108, 111, 99, 107, 115 >>

\* "inv"
CmdInv == << 105, 110, 118 >>

\* "getdata"
CmdGetData == << 103, 101, 116, 100, 97, 116, 97 >>

\* "notfound"
CmdNotFound == << 110, 111, 116, 102, 111, 117, 110, 100 >>

\* "block"
CmdBlock == << 98, 108, 111, 99, 107 >>

\* "tx"
CmdTx == << 116, 120 >>

\* "exttx"
CmdExtendedTx == << 101, 120, 116, 116, 120 >>

\* "getheaders"
CmdGetHeaders == << 103, 101, 116, 104, 101, 97, 100, 101, 114, 115 >>

\* "headers"
CmdHeaders == << 104, 101, 97, 100, 101, 114, 115 >>

\* "ping"
CmdPing == << 112, 105, 110, 103 >>

\* "pong"
CmdPong == << 112, 111, 110, 103 >>

\* "mempool"
CmdMemPool == << 109, 101, 109, 112, 111, 111, 108 >>

\* "filteradd"
CmdFilterAdd == << 102, 105, 108, 116, 101, 114, 97, 100, 100 >>

\* "filterclear"
CmdFilterClear == << 102, 105, 108, 116, 101, 114, 99, 108, 101, 97, 114 >>

\* "filterload"
CmdFilterLoad == << 102, 105, 108, 116, 101, 114, 108, 111, 97, 100 >>

\* "merkleblock"
CmdMerkleBlock == << 109, 101, 114, 107, 108, 101, 98, 108, 111, 99, 107 >>

\* "reject"
CmdReject == << 114, 101, 106, 101, 99, 116 >>

\* "sendheaders"
CmdSendHeaders == << 115, 101, 110, 100, 104, 101, 97, 100, 101, 114, 115 >>

\* "feefilter"
CmdFeeFilter == << 102, 101, 101, 102, 105, 108, 116, 101, 114 >>

\* "getcfilters"
CmdGetCFilters == << 103, 101, 116, 99, 102, 105, 108, 116, 101, 114, 115 >>

\* "getcfheaders"
CmdGetCFHeaders == << 103, 101, 116, 99, 102, 104, 101, 97, 100, 101, 114, 115 >>

\* "getcfcheckpt"
CmdGetCFCheckpt == << 103, 101, 116, 99, 102, 99, 104, 101, 99, 107, 112, 116 >>

\* "cfilter"
CmdCFilter == << 99, 102, 105, 108, 116, 101, 114 >>

\* "cfheaders"
CmdCFHeaders == << 99, 102, 104, 101, 97, 100, 101, 114, 115 >>

\* "cfcheckpt"
CmdCFCheckpt == << 99, 102, 99, 104, 101, 99, 107, 112, 116 >>

\* "protoconf"
CmdProtoconf == << 112, 114, 111, 116, 111, 99, 111, 110, 102 >>

\* "extmsg"
CmdExtMsg == << 101, 120, 116, 109, 115, 103 >>

\* "sendcmpct"
CmdSendcmpct == << 115, 101, 110, 100, 99, 109, 112, 99, 116 >>

\* "authch"
CmdAuthch == << 97, 117, 116, 104, 99, 104 >>

\* "authresp"
CmdAuthresp == << 97, 117, 116, 104, 114, 101, 115, 112 >>

\* "createstrm"
CmdCreateStream == << 99, 114, 101, 97, 116, 101, 115, 116, 114, 109 >>

\* "streamack"
CmdStreamAck == << 115, 116, 114, 101, 97, 109, 97, 99, 107 >>

----------------------------------------------------------------------------
(* Errors.  nil is NoErr; io.EOF and io.ErrUnexpectedEOF are the I/O errors *)
(* of a short read; a *MessageError carries the function that raised it and *)
(* what it found.                                                           *)

NoErr == [kind |-> "nil", func |-> "", why |-> ""]

EOF == [kind |-> "io", func |-> "", why |-> "EOF"]

ErrUnexpectedEOF == [kind |-> "io", func |-> "", why |-> "unexpected EOF"]

messageError(f, desc) == [kind |-> "MessageError", func |-> f, why |-> desc]

\* errors.New / fmt.Errorf
plainError(desc) == [kind |-> "error", func |-> "", why |-> desc]

----------------------------------------------------------------------------
(* Readers.  io.ReadFull(r, buf) with len(buf) = n on a reader holding the  *)
(* bytes s: all n bytes, or what is left with io.EOF (nothing was left) or  *)
(* io.ErrUnexpectedEOF (fewer than n were left).                            *)

ReadFull(s, n) ==
  With(BLen(s), LAMBDA have :
    IF Le(n, have)
    THEN [n |-> n, data |-> Take(s, n), rest |-> Drop(s, n), err |-> NoErr]
    ELSE [n |-> have, data |-> s, rest |-> << >>,
          err |-> IF have = U64Zero THEN EOF ELSE ErrUnexpectedEOF])

\* the little-endian bytes of the low k bytes of v (binary.LittleEndian.PutUintXX)
PutLE(v, k) == Bytes(SubSeq(v, 1, k))

\* the value of k little-endian bytes (binary.LittleEndian.UintXX)
GetLE(bs, k) == SubSeq(bs, 1, k) \o SubSeq(U64Zero, k + 1, 8)

\* readElement of a k-byte unsigned integer
readUint(s, k) ==
  With(ReadFull(s, U(k)), LAMBDA rf :
    [err |-> rf.err, rest |-> rf.rest,
     val |-> IF rf.err = NoErr THEN GetLE(Unpack(rf.data), k) ELSE U64Zero])

\* readElements of consecutive fixed-width fields: the byte values of each
\* field read, up to the first field the reader cannot fill
RECURSIVE readFields(_, _)
readFields(s, widths) ==
  IF widths = << >> THEN [err |-> NoErr, rest |-> s, vals |-> << >>]
  ELSE With(ReadFull(s, U(widths[1])), LAMBDA rf :
         IF rf.err # NoErr
         THEN [err |-> rf.err, rest |-> rf.rest, vals |-> << >>]
         ELSE With(readFields(rf.rest, Tail(widths)), LAMBDA more :
                [err |-> more.err, rest |-> more.rest,
                 vals |-> << rf.data >> \o more.vals]))

----------------------------------------------------------------------------
(* Variable length integers, byte blobs and strings.                        *)

\* WriteVarInt taking 0xfd itself for a one-byte value
WriteVarIntMarkerAsValue(val) ==
  IF Le(val, U(253)) THEN PutLE(val, 1)
  ELSE IF Le(val, U(65535)) THEN Cat(Bytes(<< 253 >>), PutLE(val, 2))
  ELSE IF Le(val, MaxUint32) THEN Cat(Bytes(<< 254 >>), PutLE(val, 4))
  ELSE Cat(Bytes(<< 255 >>), PutLE(val, 8))

\* WriteVarInt: 1 byte below 0xfd, else a marker and 2, 4 or 8 bytes
WriteVarInt(val) ==
  IF Lt(val, U(253)) THEN PutLE(val, 1)
  ELSE IF Le(val, U(65535)) THEN Cat(Bytes(<< 253 >>), PutLE(val, 2))
  ELSE IF Le(val, MaxUint32) THEN Cat(Bytes(<< 254 >>), PutLE(val, 4))
  ELSE Cat(Bytes(<< 255 >>), PutLE(val, 8))

\* ReadVarInt: the marker selects the width; any encoding of a value is taken
ReadVarInt(s) ==
  With(readUint(s, 1), LAMBDA d :
    IF d.err # NoErr THEN [err |-> d.err, rest |-> d.rest, val |-> U64Zero]
    ELSE IF d.val[1] = 255 THEN readUint(d.rest, 8)
    ELSE IF d.val[1] = 254 THEN readUint(d.rest, 4)
    ELSE IF d.val[1] = 253 THEN readUint(d.rest, 2)
    ELSE d)

\* WriteVarBytes: the length as a varint, then the bytes
WriteVarBytes(bytes) == Cat(WriteVarInt(BLen(bytes)), bytes)

\* ReadVarBytes: the declared length is checked against maxAllowed before the
\* buffer for it is made; alloc lists the size of the buffer when it is made
ReadVarBytes(s, maxAllowed, fieldName) ==
  With(ReadVarInt(s), LAMBDA c :
    IF c.err # NoErr
    THEN [err |-> c.err, rest |-> c.rest, val |-> << >>, alloc |-> << >>]
    ELSE IF Gt(c.val, maxAllowed)
    THEN [err |-> messageError("ReadVarBytes", fieldName), rest |-> c.rest,
          val |-> << >>, alloc |-> << >>]
    ELSE With(ReadFull(c.rest, c.val), LAMBDA rf :
           [err |-> rf.err, rest |-> rf.rest,
            val |-> IF rf.err = NoErr THEN rf.data ELSE << >>,
            alloc |-> <<c.val>>]))

----------------------------------------------------------------------------
(* The process-wide limits.                                                 *)

\* maxMessagePayload: ((ebs / 1000000) * 1024 * 1024) * 2 in uint64
maxMessagePayload(e) == Mul(Mul(Mul(Div(e, 1000000), 1024), 1024), 2)

\* MaxBlockPayload: the excessive block size itself
MaxBlockPayload(e) == e

\* maxTxPerBlock: (MaxBlockPayload() / minTxPayload) + 1
maxTxPerBlock(e) == Add(Div(MaxBlockPayload(e), minTxPayload), U(1))

\* maxFlagsPerMerkleBlock: maxTxPerBlock() / 8
maxFlagsPerMerkleBlock(e) == Div(maxTxPerBlock(e), 8)

\* ReadVarString: a varint length, refused above the global ceiling, and the bytes
ReadVarString(s, e) ==
  With(ReadVarInt(s), LAMBDA c :
    IF c.err # NoErr THEN [err |-> c.err, rest |-> c.rest, val |-> << >>]
    ELSE IF Gt(c.val, maxMessagePayload(e))
    THEN [err |-> messageError("ReadVarString", "string too long"),
          rest |-> c.rest, val |-> << >>]
    ELSE With(ReadFull(c.rest, c.val), LAMBDA rf :
           [err |-> rf.err, rest |-> rf.rest,
            val |-> IF rf.err = NoErr THEN rf.data ELSE << >>]))

\* WriteVarString
WriteVarString(str) == Cat(WriteVarInt(BLen(str)), str)


----------------------------------------------------------------------------
(* Message variants.  A message is a record: its Go type and its fields.    *)
(* The variants whose codec the model follows are MsgVerAck, MsgPong,       *)
(* MsgMemPool, MsgGetCFHeaders, MsgStreamAck, MsgCreateStream,              *)
(* MsgMerkleBlock and the test suite's fakeMessage; of the other variants   *)
(* the registry only makes the empty instance.                              *)

\* the nil Message
NilMsg == [type |-> "nil"]

zeroHash == Rep(0, U(HashSize))

\* the zero BlockHeader, as its six encoded fields: version, previous block,
\* merkle root, timestamp, bits, nonce
blockHeaderWidths == << 4, 32, 32, 4, 4, 4 >>

zeroBlockHeader == [i \in 1..6 |-> Rep(0, U(blockHeaderWidths[i]))]

NewMsgVerAck == [type |-> "MsgVerAck"]

NewMsgPong(nonce) == [type |-> "MsgPong", Nonce |-> nonce]

NewMsgMemPool == [type |-> "MsgMemPool"]

NewMsgGetCFHeaders(filterType, startHeight, stopHash) ==
  [type |-> "MsgGetCFHeaders", FilterType |-> filterType,
   StartHeight |-> startHeight, StopHash |-> stopHash]

NewMsgGetCFCheckpt(filterType, stopHash) ==
  [type |-> "MsgGetCFCheckpt", FilterType |-> filterType, StopHash |-> stopHash]

NewMsgStreamAck(associationID, streamType) ==
  [type |-> "MsgStreamAck", AssociationID |-> associationID,
   StreamType |-> streamType]

NewMsgCreateStream(associationID, streamType, policyName) ==
  [type |-> "MsgCreateStream", AssociationID |-> associationID,
   StreamType |-> streamType, StreamPolicyName |-> policyName]

NewMsgMerkleBlock(bh) ==
  [type |-> "MsgMerkleBlock", Header |-> bh, Transactions |-> U64Zero,
   Hashes |-> << >>, Flags |-> << >>]

NewMsgFilterClear == [type |-> "MsgFilterClear"]

NewMsgSendHeaders == [type |-> "MsgSendHeaders"]

NewMsgFeeFilter(minFee) == [type |-> "MsgFeeFilter", MinFee |-> minFee]

\* the InvList of a MsgNotFound is kept as the bytes of its vectors, 36 each
NewMsgNotFound == [type |-> "MsgNotFound", InvList |-> << >>]

\* NewMsgAuthresp; nonce is what RandomUint64 gave
NewMsgAuthresp(publicKey, signature, nonce) ==
  [type |-> "MsgAuthresp", PublicKeyLength |-> GetLE(BLen(publicKey), 4),
   PublicKey |-> publicKey, ClientNonce |-> nonce,
   SignatureLength |-> GetLE(BLen(signature), 4), Signature |-> signature]

fakeMessage(command, payload, forceEncodeErr, forceLenErr) ==
  [type |-> "fakeMessage", command |-> command, payload |-> payload,
   forceEncodeErr |-> forceEncodeErr, forceLenErr |-> forceLenErr]

\* the zero value of MsgPong where that of MsgPing is due
emptyMessagePongForPing(type) ==
  IF type = "MsgPing" THEN NewMsgPong(U64Zero) ELSE [type |-> type]

\* &T{}: the zero value of a variant
emptyMessage(type) ==
  CASE type = "MsgPong" -> NewMsgPong(U64Zero)
    [] type = "MsgGetCFHeaders" -> NewMsgGetCFHeaders(0, U64Zero, zeroHash)
    [] type = "MsgGetCFCheckpt" -> NewMsgGetCFCheckpt(0, zeroHash)
    [] type = "MsgStreamAck" -> NewMsgStreamAck(<< >>, 0)
    [] type = "MsgCreateStream" -> NewMsgCreateStream(<< >>, 0, << >>)
    [] type = "MsgMerkleBlock" -> NewMsgMerkleBlock(zeroBlockHeader)
    [] type = "MsgFeeFilter" -> NewMsgFeeFilter(U64Zero)
    [] type = "MsgNotFound" -> NewMsgNotFound
    [] type = "MsgAuthresp" ->
         [type |-> "MsgAuthresp", PublicKeyLength |-> U64Zero,
          PublicKey |-> << >>, ClientNonce |-> U64Zero,
          SignatureLength |-> U64Zero, Signature |-> << >>]
    [] OTHER -> [type |-> type]

\* Command of the variants whose files are not at hand: each returns the
\* constant named after it
otherCommand(type) ==
  CASE type = "MsgVersion" -> CmdVersion
    [] type = "MsgGetAddr" -> CmdGetAddr
    [] type = "MsgAddr" -> CmdAddr
    [] type = "MsgGetBlocks" -> CmdGetBlocks
    [] type = "MsgBlock" -> CmdBlock
    [] type = "MsgInv" -> CmdInv
    [] type = "MsgGetData" -> CmdGetData
    [] type = "MsgTx" -> CmdTx
    [] type = "MsgExtendedTx" -> CmdExtendedTx
    [] type = "MsgPing" -> CmdPing
    [] type = "MsgGetHeaders" -> CmdGetHeaders
    [] type = "MsgHeaders" -> CmdHeaders
    [] type = "MsgFilterAdd" -> CmdFilterAdd
    [] type = "MsgFilterLoad" -> CmdFilterLoad
    [] type = "MsgReject" -> CmdReject
    [] type = "MsgGetCFilters" -> CmdGetCFilters
    [] type = "MsgCFilter" -> CmdCFilter
    [] type = "MsgCFHeaders" -> CmdCFHeaders
    [] type = "MsgCFCheckpt" -> CmdCFCheckpt
    [] type = "MsgProtoconf" -> CmdProtoconf
    [] type = "MsgExtMsg" -> CmdExtMsg
    [] type = "MsgAuthch" -> CmdAuthch
    [] type = "MsgSendcmpct" -> CmdSendcmpct

\* Message.Command
Command(msg) ==
  CASE msg.type = "MsgVerAck" -> CmdVerAck
    [] msg.type = "MsgPong" -> CmdPong
    [] msg.type = "MsgMemPool" -> CmdMemPool
    [] msg.type = "MsgGetCFHeaders" -> CmdGetCFHeaders
    [] msg.type = "MsgGetCFCheckpt" -> CmdGetCFCheckpt
    [] msg.type = "MsgStreamAck" -> CmdStreamAck
    [] msg.type = "MsgCreateStream" -> CmdCreateStream
    [] msg.type = "MsgMerkleBlock" -> CmdMerkleBlock
    [] msg.type = "MsgFilterClear" -> CmdFilterClear
    [] msg.type = "MsgSendHeaders" -> CmdSendHeaders
    [] msg.type = "MsgFeeFilter" -> CmdFeeFilter
    [] msg.type = "MsgNotFound" -> CmdNotFound
    [] msg.type = "MsgAuthresp" -> CmdAuthresp
    [] msg.type = "fakeMessage" -> msg.command
    [] OTHER -> otherCommand(msg.type)

\* Message.MaxPayloadLength under the excessive block size e
MaxPayloadLength(msg, pver, e) ==
  CASE msg.type = "MsgVerAck" -> U64Zero
    [] msg.type = "MsgPong" -> IF pver > BIP0031Version THEN U(8) ELSE U64Zero
    [] msg.type = "MsgMemPool" -> U64Zero
    [] msg.type = "MsgGetCFHeaders" -> U(1 + 4 + HashSize)
    [] msg.type = "MsgGetCFCheckpt" -> U(1 + HashSize)
    [] msg.type = "MsgStreamAck" -> U(MaxVarIntPayload + MaxAssociationIDLen + 1)
    [] msg.type = "MsgCreateStream" ->
         U(MaxVarIntPayload + MaxAssociationIDLen + 1 + MaxVarIntPayload
           + MaxUserAgentLen)
    [] msg.type = "MsgMerkleBlock" -> MaxBlockPayload(e)
    [] msg.type = "MsgFilterClear" -> U64Zero
    [] msg.type = "MsgSendHeaders" -> U64Zero
    [] msg.type = "MsgFeeFilter" -> U(8)
    [] msg.type = "MsgNotFound" ->
         U(MaxVarIntPayload + (MaxInvPerMsg * maxInvVectPayload))
    [] msg.type = "MsgAuthresp" ->
         U(4 + SECP256K1_COMP_PUB_KEY_SIZE_IN_BYTES + 8 + 4
           + SECP256K1_DER_SIGN_MAX_SIZE_IN_BYTES)
    [] msg.type = "fakeMessage" ->
         IF msg.forceLenErr THEN Sub(BLen(msg.payload), U(1))
         ELSE BLen(msg.payload)

\* MsgMerkleBlock.AddTxHash comparing the current length alone with the
\* maximum
AddTxHashOneTooMany(msg, hash, e) ==
  IF Gt(U(Len(msg.Hashes)), maxTxPerBlock(e))
  THEN [err |-> messageError("MsgMerkleBlock.AddTxHash", "too many tx hashes"),
        msg |-> msg]
  ELSE [err |-> NoErr, msg |-> [msg EXCEPT !.Hashes = Append(@, hash)]]

\* MsgMerkleBlock.AddTxHash
AddTxHash(msg, hash, e) ==
  IF Gt(Add(U(Len(msg.Hashes)), U(1)), maxTxPerBlock(e))
  THEN [err |-> messageError("MsgMerkleBlock.AddTxHash", "too many tx hashes"),
        msg |-> msg]
  ELSE [err |-> NoErr, msg |-> [msg EXCEPT !.Hashes = Append(@, hash)]]

\* MsgNotFound.AddInvVect; iv is the 36 bytes of the vector
AddInvVect(msg, iv) ==
  IF Gt(Add(Div(BLen(msg.InvList), maxInvVectPayload), U(1)), U(MaxInvPerMsg))
  THEN [err |-> messageError("MsgNotFound.AddInvVect", "too many invvect"),
        msg |-> msg]
  ELSE [err |-> NoErr, msg |-> [msg EXCEPT !.InvList = Cat(@, iv)]]

\* MsgNotFound.BsvEncode writing whatever the list holds
MsgNotFoundBsvEncodeUnchecked(msg) ==
  [err |-> NoErr,
   out |-> Cat(WriteVarInt(Div(BLen(msg.InvList), maxInvVectPayload)),
               msg.InvList)]

\* MsgNotFound.BsvEncode
MsgNotFoundBsvEncode(msg) ==
  IF Gt(Div(BLen(msg.InvList), maxInvVectPayload), U(MaxInvPerMsg))
  THEN [err |-> messageError("MsgNotFound.BsvEncode",
                             "too many invvect in message"),
        out |-> << >>]
  ELSE [err |-> NoErr,
        out |-> Cat(WriteVarInt(Div(BLen(msg.InvList), maxInvVectPayload)),
                    msg.InvList)]

\* Message.BsvEncode into a bytes.Buffer: the error and the bytes written
BsvEncode(msg, pver, e) ==
  CASE msg.type = "MsgVerAck" -> [err |-> NoErr, out |-> << >>]
    [] msg.type = "MsgPong" ->
         IF pver <= BIP0031Version
         THEN [err |-> messageError("MsgPong.BsvEncode", "invalid for version"),
               out |-> << >>]
         ELSE [err |-> NoErr, out |-> PutLE(msg.Nonce, 8)]
    [] msg.type = "MsgMemPool" ->
         IF pver < BIP0035Version
         THEN [err |-> messageError("MsgMemPool.BsvEncode", "invalid for version"),
               out |-> << >>]
         ELSE [err |-> NoErr, out |-> << >>]
    [] msg.type = "MsgGetCFHeaders" ->
         [err |-> NoErr,
          out |-> Cat(Cat(Bytes(<< msg.FilterType >>), PutLE(msg.StartHeight, 4)),
                      msg.StopHash)]
    [] msg.type = "MsgGetCFCheckpt" ->
         [err |-> NoErr,
          out |-> Cat(Bytes(<< msg.FilterType >>), msg.StopHash)]
    [] msg.type = "MsgStreamAck" ->
         [err |-> NoErr,
          out |-> Cat(WriteVarBytes(msg.AssociationID),
                      Bytes(<< msg.StreamType >>))]
    [] msg.type = "MsgCreateStream" ->
         IF BLen(msg.AssociationID) = U64Zero
         THEN [err |-> messageError("MsgCreateStream.BsvEncode",
                                    "association ID must not be empty"),
               out |-> << >>]
         ELSE IF Gt(BLen(msg.AssociationID), U(MaxAssociationIDLen))
         THEN [err |-> messageError("MsgCreateStream.BsvEncode",
                                    "association ID too long"),
               out |-> << >>]
         ELSE [err |-> NoErr,
               out |-> Cat(Cat(WriteVarBytes(msg.AssociationID),
                               Bytes(<< msg.StreamType >>)),
                           WriteVarString(msg.StreamPolicyName))]
    [] msg.type = "MsgMerkleBlock" ->
         IF pver < BIP0037Version
         THEN [err |-> messageError("MsgMerkleBlock.BsvEncode",
                                    "invalid for version"),
               out |-> << >>]
         ELSE IF Gt(U(Len(msg.Hashes)), maxTxPerBlock(e))
         THEN [err |-> messageError("MsgMerkleBlock.Bsvdecode",
                                    "too many transaction hashes"),
               out |-> << >>]
         ELSE IF Gt(BLen(msg.Flags), maxFlagsPerMerkleBlock(e))
         THEN [err |-> messageError("MsgMerkleBlock.Bsvdecode",
                                    "too many flag bytes"),
               out |-> << >>]
         ELSE LET CatAll[i \in 0..6] ==
                    IF i = 0 THEN << >> ELSE Cat(CatAll[i - 1], msg.Header[i])
                  HashesOut[i \in 0..Len(msg.Hashes)] ==
                    IF i = 0 THEN << >> ELSE Cat(HashesOut[i - 1], msg.Hashes[i])
              IN  [err |-> NoErr,
                   out |-> Cat(Cat(Cat(Cat(CatAll[6], PutLE(msg.Transactions, 4)),
                                       WriteVarInt(U(Len(msg.Hashes)))),
                                   HashesOut[Len(msg.Hashes)]),
                               WriteVarBytes(msg.Flags))]
    [] msg.type = "MsgFilterClear" ->
         IF pver < BIP0037Version
         THEN [err |-> messageError("MsgFilterClear.BsvEncode",
                                    "invalid for version"),
               out |-> << >>]
         ELSE [err |-> NoErr, out |-> << >>]
    [] msg.type = "MsgSendHeaders" ->
         IF pver < SendHeadersVersion
         THEN [err |-> messageError("MsgSendHeaders.BsvEncode",
                                    "invalid for version"),
               out |-> << >>]
         ELSE [err |-> NoErr, out |-> << >>]
    [] msg.type = "MsgFeeFilter" ->
         IF pver < FeeFilterVersion
         THEN [err |-> messageError("MsgFeeFilter.BsvEncode",
                                    "invalid for version"),
               out |-> << >>]
         ELSE [err |-> NoErr, out |-> PutLE(msg.MinFee, 8)]
    [] msg.type = "MsgNotFound" -> MsgNotFoundBsvEncode(msg)
    [] msg.type = "MsgAuthresp" ->
         [err |-> NoErr,
          out |-> Cat(Cat(Cat(Cat(PutLE(msg.PublicKeyLength, 4), msg.PublicKey),
                              PutLE(msg.ClientNonce, 8)),
                          PutLE(msg.SignatureLength, 4)),
                      msg.Signature)]
    [] msg.type = "fakeMessage" ->
         IF msg.forceEncodeErr
         THEN [err |-> messageError("fakeMessage.BsvEncode", "intentional error"),
               out |-> << >>]
         ELSE [err |-> NoErr, out |-> msg.payload]

\* the hash loop of MsgMerkleBlock.Bsvdecode: count hashes read and added
RECURSIVE readTxHashes(_, _, _, _)
readTxHashes(msg, s, count, e) ==
  IF count = U64Zero THEN [err |-> NoErr, msg |-> msg, rest |-> s]
  ELSE With(ReadFull(s, U(HashSize)), LAMBDA rf :
         IF rf.err # NoErr THEN [err |-> rf.err, msg |-> msg, rest |-> rf.rest]
         ELSE With(AddTxHash(msg, rf.data, e), LAMBDA added :
                IF added.err # NoErr
                THEN [err |-> added.err, msg |-> msg, rest |-> rf.rest]
                ELSE readTxHashes(added.msg, rf.rest, Sub(count, U(1)), e)))

\* what a Bsvdecode call returns and leaves behind: the error, the receiver,
\* the reader, and the sizes of the count-sized storage it made, in order
decoded(err, msg, rest, alloc) ==
  [err |-> err, msg |-> msg, rest |-> rest, alloc |-> alloc]

\* MsgPong.Bsvdecode gated like the other messages, with <
MsgPongBsvdecodeUniformGate(msg, s, pver) ==
  IF pver < BIP0031Version
  THEN decoded(messageError("MsgPong.Bsvdecode", "invalid for version"), msg, s,
               << >>)
  ELSE With(readUint(s, 8), LAMBDA v :
         decoded(v.err,
                 IF v.err = NoErr THEN [msg EXCEPT !.Nonce = v.val] ELSE msg,
                 v.rest, << >>))

\* MsgPong.Bsvdecode reading the nonce before it looks at the version
MsgPongBsvdecodeReadsFirst(msg, s, pver) ==
  With(readUint(s, 8), LAMBDA v :
    IF pver <= BIP0031Version
    THEN decoded(messageError("MsgPong.Bsvdecode", "invalid for version"),
                 IF v.err = NoErr THEN [msg EXCEPT !.Nonce = v.val] ELSE msg,
                 v.rest, << >>)
    ELSE decoded(v.err,
                 IF v.err = NoErr THEN [msg EXCEPT !.Nonce = v.val] ELSE msg,
                 v.rest, << >>))

\* MsgPong.Bsvdecode
MsgPongBsvdecode(msg, s, pver) ==
  IF pver <= BIP0031Version
  THEN decoded(messageError("MsgPong.Bsvdecode", "invalid for version"), msg, s,
               << >>)
  ELSE With(readUint(s, 8), LAMBDA v :
         decoded(v.err,
                 IF v.err = NoErr THEN [msg EXCEPT !.Nonce = v.val] ELSE msg,
                 v.rest, << >>))

\* MsgMemPool.Bsvdecode; the reader is not used
MsgMemPoolBsvdecode(msg, pver) ==
  IF pver < BIP0035Version
  THEN [err |-> messageError("MsgMemPool.Bsvdecode", "invalid for version"),
        msg |-> msg]
  ELSE [err |-> NoErr, msg |-> msg]

\* MsgFilterClear.Bsvdecode; the reader is not used
MsgFilterClearBsvdecode(msg, pver) ==
  IF pver < BIP0037Version
  THEN [err |-> messageError("MsgFilterClear.Bsvdecode", "invalid for version"),
        msg |-> msg]
  ELSE [err |-> NoErr, msg |-> msg]

\* MsgSendHeaders.Bsvdecode; the reader is not used
MsgSendHeadersBsvdecode(msg, pver) ==
  IF pver < SendHeadersVersion
  THEN [err |-> messageError("MsgSendHeaders.Bsvdecode", "invalid for version"),
        msg |-> msg]
  ELSE [err |-> NoErr, msg |-> msg]

\* MsgFeeFilter.Bsvdecode
MsgFeeFilterBsvdecode(msg, s, pver) ==
  IF pver < FeeFilterVersion
  THEN decoded(messageError("MsgFeeFilter.Bsvdecode", "invalid for version"),
               msg, s, << >>)
  ELSE With(readUint(s, 8), LAMBDA v :
         decoded(v.err,
                 IF v.err = NoErr THEN [msg EXCEPT !.MinFee = v.val] ELSE msg,
                 v.rest, << >>))

\* the vector loop of MsgNotFound.Bsvdecode: count vectors of a 4-byte type
\* and a hash are read and added; a reader that runs dry ends it with the
\* vectors read so far
readInvList(msg, s, count) ==
  With(Div(BLen(s), maxInvVectPayload), LAMBDA whole :
    IF Le(count, whole)
    THEN [err |-> NoErr, rest |-> Drop(s, Mul(count, maxInvVectPayload)),
          msg |-> [msg EXCEPT
                     !.InvList = Take(s, Mul(count, maxInvVectPayload))]]
    ELSE [err |-> IF Mod(BLen(s), maxInvVectPayload) \in {0, 4}
                  THEN EOF ELSE ErrUnexpectedEOF,
          rest |-> << >>,
          msg |-> [msg EXCEPT
                     !.InvList = Take(s, Mul(whole, maxInvVectPayload))]])

\* MsgNotFound.Bsvdecode making the slice for the count before checking it
MsgNotFoundBsvdecodeAllocatesFirst(msg, s) ==
  With(ReadVarInt(s), LAMBDA cn :
    IF cn.err # NoErr THEN decoded(cn.err, msg, cn.rest, << >>)
    ELSE IF Gt(cn.val, U(MaxInvPerMsg))
    THEN decoded(messageError("MsgNotFound.Bsvdecode",
                              "too many invvect in message"),
                 [msg EXCEPT !.InvList = << >>], cn.rest, << cn.val >>)
    ELSE With(readInvList(msg, cn.rest, cn.val), LAMBDA vs :
           decoded(vs.err, vs.msg, vs.rest, << cn.val >>)))

\* MsgNotFound.Bsvdecode
MsgNotFoundBsvdecode(msg, s) ==
  With(ReadVarInt(s), LAMBDA cn :
    IF cn.err # NoErr THEN decoded(cn.err, msg, cn.rest, << >>)
    ELSE IF Gt(cn.val, U(MaxInvPerMsg))
    THEN decoded(messageError("MsgNotFound.Bsvdecode",
                              "too many invvect in message"),
                 msg, cn.rest, << >>)
    ELSE With(readInvList(msg, cn.rest, cn.val), LAMBDA vs :
           decoded(vs.err, vs.msg, vs.rest, <<cn.val>>)))

\* MsgAuthresp.Bsvdecode
MsgAuthrespBsvdecode(msg, s, pver, e) ==
  With(ReadVarBytes(s, MaxPayloadLength(msg, pver, e), "challenge"), LAMBDA pk :
   With([msg EXCEPT !.PublicKey = pk.val], LAMBDA m0 :
    IF pk.err # NoErr THEN decoded(pk.err, m0, pk.rest, pk.alloc)
    ELSE With([m0 EXCEPT !.PublicKeyLength = GetLE(BLen(pk.val), 4)],
              LAMBDA m1 :
      With(readUint(pk.rest, 8), LAMBDA cn :
        IF cn.err # NoErr THEN decoded(cn.err, m1, cn.rest, pk.alloc)
        ELSE With(ReadVarBytes(cn.rest, MaxPayloadLength(msg, pver, e),
                               "challenge"), LAMBDA sg :
          With([m1 EXCEPT !.ClientNonce = cn.val, !.Signature = sg.val],
               LAMBDA m2 :
            IF sg.err # NoErr
            THEN decoded(sg.err, m2, sg.rest, pk.alloc \o sg.alloc)
            ELSE decoded(NoErr,
                         [m2 EXCEPT !.SignatureLength = GetLE(BLen(sg.val), 4)],
                         sg.rest, pk.alloc \o sg.alloc)))))))

\* MsgGetCFHeaders.Bsvdecode
MsgGetCFHeadersBsvdecode(msg, s) ==
  With(readUint(s, 1), LAMBDA ft :
    IF ft.err # NoErr THEN decoded(ft.err, msg, ft.rest, << >>)
    ELSE With(readUint(ft.rest, 4), LAMBDA sh :
      IF sh.err # NoErr
      THEN decoded(sh.err, [msg EXCEPT !.FilterType = ft.val[1]], sh.rest,
                   << >>)
      ELSE With(ReadFull(sh.rest, U(HashSize)), LAMBDA st :
        IF st.err # NoErr
        THEN decoded(st.err,
                     [msg EXCEPT !.FilterType = ft.val[1],
                                 !.StartHeight = sh.val],
                     st.rest, << >>)
        ELSE decoded(NoErr,
                     [msg EXCEPT !.FilterType = ft.val[1],
                                 !.StartHeight = sh.val,
                                 !.StopHash = st.data],
                     st.rest, << >>))))

\* MsgGetCFCheckpt.Bsvdecode
MsgGetCFCheckptBsvdecode(msg, s) ==
  With(readUint(s, 1), LAMBDA ft :
    IF ft.err # NoErr THEN decoded(ft.err, msg, ft.rest, << >>)
    ELSE With(ReadFull(ft.rest, U(HashSize)), LAMBDA st :
      IF st.err # NoErr
      THEN decoded(st.err, [msg EXCEPT !.FilterType = ft.val[1]], st.rest,
                   << >>)
      ELSE decoded(NoErr,
                   [msg EXCEPT !.FilterType = ft.val[1], !.StopHash = st.data],
                   st.rest, << >>)))

\* MsgStreamAck.Bsvdecode
MsgStreamAckBsvdecode(msg, s) ==
  With(ReadVarBytes(s, U(MaxAssociationIDLen), "AssociationID"), LAMBDA id :
    IF id.err # NoErr
    THEN decoded(id.err, [msg EXCEPT !.AssociationID = id.val], id.rest,
                 id.alloc)
    ELSE With(readUint(id.rest, 1), LAMBDA st :
      IF st.err # NoErr
      THEN decoded(st.err, [msg EXCEPT !.AssociationID = id.val], st.rest,
                   id.alloc)
      ELSE decoded(NoErr,
                   [msg EXCEPT !.AssociationID = id.val,
                               !.StreamType = st.val[1]],
                   st.rest, id.alloc)))

\* MsgCreateStream.Bsvdecode taking an empty association ID like
\* MsgStreamAck.Bsvdecode does
MsgCreateStreamBsvdecodeAllowsEmpty(msg, s, e) ==
  With(ReadVarBytes(s, U(MaxAssociationIDLen), "AssociationID"), LAMBDA id :
    With([msg EXCEPT !.AssociationID = id.val], LAMBDA m1 :
      IF id.err # NoErr THEN decoded(id.err, m1, id.rest, id.alloc)
      ELSE With(readUint(id.rest, 1), LAMBDA st :
        IF st.err # NoErr THEN decoded(st.err, m1, st.rest, id.alloc)
        ELSE With(ReadVarString(st.rest, e), LAMBDA pn :
          decoded(pn.err,
                  [m1 EXCEPT !.StreamType = st.val[1],
                             !.StreamPolicyName = pn.val],
                  pn.rest, id.alloc)))))

\* MsgCreateStream.Bsvdecode
MsgCreateStreamBsvdecode(msg, s, e) ==
  With(ReadVarBytes(s, U(MaxAssociationIDLen), "AssociationID"), LAMBDA id :
    With([msg EXCEPT !.AssociationID = id.val], LAMBDA m1 :
      IF id.err # NoErr THEN decoded(id.err, m1, id.rest, id.alloc)
      ELSE IF BLen(id.val) = U64Zero
      THEN decoded(messageError("MsgCreateStream.Bsvdecode",
                                "association ID must not be empty"),
                   m1, id.rest, id.alloc)
      ELSE With(readUint(id.rest, 1), LAMBDA st :
        IF st.err # NoErr THEN decoded(st.err, m1, st.rest, id.alloc)
        ELSE With(ReadVarString(st.rest, e), LAMBDA pn :
          decoded(pn.err,
                  [m1 EXCEPT !.StreamType = st.val[1],
                             !.StreamPolicyName = pn.val],
                  pn.rest, id.alloc)))))

\* MsgMerkleBlock.Bsvdecode; the storage made is the contiguous slice of
\* hashes and then the flags buffer
MsgMerkleBlockBsvdecode(msg, s, pver, e) ==
  IF pver < BIP0037Version
  THEN decoded(messageError("MsgMerkleBlock.Bsvdecode", "invalid for version"),
               msg, s, << >>)
  ELSE
  With(readFields(s, blockHeaderWidths), LAMBDA bh :
   With([msg EXCEPT !.Header =
           [i \in 1..6 |-> IF i <= Len(bh.vals) THEN bh.vals[i] ELSE @[i]]],
        LAMBDA m1 :
    IF bh.err # NoErr THEN decoded(bh.err, m1, bh.rest, << >>)
    ELSE With(readUint(bh.rest, 4), LAMBDA tx :
      IF tx.err # NoErr THEN decoded(tx.err, m1, tx.rest, << >>)
      ELSE With(ReadVarInt(tx.rest), LAMBDA cn :
       With([m1 EXCEPT !.Transactions = tx.val], LAMBDA m2 :
        IF cn.err # NoErr THEN decoded(cn.err, m2, cn.rest, << >>)
        ELSE IF Gt(cn.val, maxTxPerBlock(e))
        THEN decoded(messageError("MsgMerkleBlock.Bsvdecode",
                                  "too many transaction hashes"),
                     m2, cn.rest, << >>)
        ELSE With(readTxHashes([m2 EXCEPT !.Hashes = << >>], cn.rest, cn.val, e),
                  LAMBDA hs :
          IF hs.err # NoErr THEN decoded(hs.err, hs.msg, hs.rest, <<cn.val>>)
          ELSE With(ReadVarBytes(hs.rest, maxFlagsPerMerkleBlock(e),
                                 "merkle block flags size"), LAMBDA fl :
            decoded(fl.err, [hs.msg EXCEPT !.Flags = fl.val], fl.rest,
                    <<cn.val>> \o fl.alloc))))))))

\* a Bsvdecode that ignores its reader
unread(dec, s) == decoded(dec.err, dec.msg, s, << >>)

\* Message.Bsvdecode of the payload s into the receiver msg: the error, the
\* receiver and the reader as the call leaves them
Bsvdecode(msg, s, pver, e) ==
  CASE msg.type = "MsgVerAck" -> decoded(NoErr, msg, s, << >>)
    [] msg.type = "MsgPong" -> MsgPongBsvdecode(msg, s, pver)
    [] msg.type = "MsgMemPool" -> unread(MsgMemPoolBsvdecode(msg, pver), s)
    [] msg.type = "MsgGetCFHeaders" -> MsgGetCFHeadersBsvdecode(msg, s)
    [] msg.type = "MsgGetCFCheckpt" -> MsgGetCFCheckptBsvdecode(msg, s)
    [] msg.type = "MsgStreamAck" -> MsgStreamAckBsvdecode(msg, s)
    [] msg.type = "MsgCreateStream" -> MsgCreateStreamBsvdecode(msg, s, e)
    [] msg.type = "MsgMerkleBlock" -> MsgMerkleBlockBsvdecode(msg, s, pver, e)
    [] msg.type = "MsgFilterClear" ->
         unread(MsgFilterClearBsvdecode(msg, pver), s)
    [] msg.type = "MsgSendHeaders" ->
         unread(MsgSendHeadersBsvdecode(msg, pver), s)
    [] msg.type = "MsgFeeFilter" -> MsgFeeFilterBsvdecode(msg, s, pver)
    [] msg.type = "MsgNotFound" -> MsgNotFoundBsvdecode(msg, s)
    [] msg.type = "MsgAuthresp" -> MsgAuthrespBsvdecode(msg, s, pver, e)
    [] msg.type = "fakeMessage" -> decoded(NoErr, msg, s, << >>)

----------------------------------------------------------------------------
(* The registry.                                                            *)

\* makeEmptyMessage: the switch over the command, in the order of the source
makeEmptyMessage(command) ==
  CASE command = CmdVersion -> [msg |-> emptyMessage("MsgVersion"), err |-> NoErr]
    [] command = CmdVerAck -> [msg |-> emptyMessage("MsgVerAck"), err |-> NoErr]
    [] command = CmdGetAddr -> [msg |-> emptyMessage("MsgGetAddr"), err |-> NoErr]
    [] command = CmdAddr -> [msg |-> emptyMessage("MsgAddr"), err |-> NoErr]
    [] command = CmdGetBlocks -> [msg |-> emptyMessage("MsgGetBlocks"), err |-> NoErr]
    [] command = CmdBlock -> [msg |-> emptyMessage("MsgBlock"), err |-> NoErr]
    [] command = CmdInv -> [msg |-> emptyMessage("MsgInv"), err |-> NoErr]
    [] command = CmdGetData -> [msg |-> emptyMessage("MsgGetData"), err |-> NoErr]
    [] command = CmdNotFound -> [msg |-> emptyMessage("MsgNotFound"), err |-> NoErr]
    [] command = CmdTx -> [msg |-> emptyMessage("MsgTx"), err |-> NoErr]
    [] command = CmdExtendedTx -> [msg |-> emptyMessage("MsgExtendedTx"), err |-> NoErr]
    [] command = CmdPing -> [msg |-> emptyMessage("MsgPing"), err |-> NoErr]
    [] command = CmdPong -> [msg |-> emptyMessage("MsgPong"), err |-> NoErr]
    [] command = CmdGetHeaders -> [msg |-> emptyMessage("MsgGetHeaders"), err |-> NoErr]
    [] command = CmdHeaders -> [msg |-> emptyMessage("MsgHeaders"), err |-> NoErr]
    [] command = CmdMemPool -> [msg |-> emptyMessage("MsgMemPool"), err |-> NoErr]
    [] command = CmdFilterAdd -> [msg |-> emptyMessage("MsgFilterAdd"), err |-> NoErr]
    [] command = CmdFilterClear -> [msg |-> emptyMessage("MsgFilterClear"), err |-> NoErr]
    [] command = CmdFilterLoad -> [msg |-> emptyMessage("MsgFilterLoad"), err |-> NoErr]
    [] command = CmdMerkleBlock -> [msg |-> emptyMessage("MsgMerkleBlock"), err |-> NoErr]
    [] command = CmdReject -> [msg |-> emptyMessage("MsgReject"), err |-> NoErr]
    [] command = CmdSendHeaders -> [msg |-> emptyMessage("MsgSendHeaders"), err |-> NoErr]
    [] command = CmdFeeFilter -> [msg |-> emptyMessage("MsgFeeFilter"), err |-> NoErr]
    [] command = CmdGetCFilters -> [msg |-> emptyMessage("MsgGetCFilters"), err |-> NoErr]
    [] command = CmdGetCFCheckpt -> [msg |-> emptyMessage("MsgGetCFCheckpt"), err |-> NoErr]
    [] command = CmdCFilter -> [msg |-> emptyMessage("MsgCFilter"), err |-> NoErr]
    [] command = CmdCFHeaders -> [msg |-> emptyMessage("MsgCFHeaders"), err |-> NoErr]
    [] command = CmdCFCheckpt -> [msg |-> emptyMessage("MsgCFCheckpt"), err |-> NoErr]
    [] command = CmdProtoconf -> [msg |-> emptyMessage("MsgProtoconf"), err |-> NoErr]
    [] command = CmdExtMsg -> [msg |-> emptyMessage("MsgExtMsg"), err |-> NoErr]
    [] command = CmdAuthch -> [msg |-> emptyMessage("MsgAuthch"), err |-> NoErr]
    [] command = CmdAuthresp -> [msg |-> emptyMessage("MsgAuthresp"), err |-> NoErr]
    [] command = CmdSendcmpct -> [msg |-> emptyMessage("MsgSendcmpct"), err |-> NoErr]
    [] OTHER -> [msg |-> NilMsg, err |-> plainError("unhandled command")]

----------------------------------------------------------------------------
(* The envelope.                                                            *)

\* chainhash.DoubleHashB(payload)[0:4].  The hash is an opaque collaborator:
\* here a fixed function of the bytes that gives the empty payload its real
\* checksum 5d f6 e0 e2.
RECURSIVE hashAcc(_, _)
hashAcc(s, acc) ==
  IF s = << >> THEN acc
  ELSE LET c == s[1]
           h == IF c.k = "lit"
                THEN BagCardinality([i \in 1..Len(c.v) |->
                                       (c.v[i] + 1) * (((i * i) % 251) + 1)])
                ELSE c.b * 17 + Mod(c.n, 8191) + 1
       IN  hashAcc(Tail(s), (acc * 131 + h) % 1000003)

DoubleHashB4(payload) ==
  LET a == hashAcc(payload, 0)
  IN  << (93 + a) % 256, (246 + a \div 256) % 256, (224 + a \div 65536) % 256,
         (226 + a * 3) % 256 >>

\* bytes.TrimRight(command[:], "\x00")
TrimRight(bs) == SubSeq(bs, 1, Len(bs) - trailing(bs, 0))

\* copy(command[:], cmd) into a zeroed [CommandSize]byte
padCommand(cmd) == SubSeq(cmd \o copies(0, CommandSize), 1, CommandSize)

\* utf8.ValidString on the bytes of a string
RECURSIVE ValidString(_)
ValidString(bs) ==
  LET n == Len(bs)
      cont(i) == i <= n /\ bs[i] >= 128 /\ bs[i] <= 191
      in(i, lo, hi) == i <= n /\ bs[i] >= lo /\ bs[i] <= hi
      b == bs[1]
      size ==
        IF b < 128 THEN 1
        ELSE IF b >= 194 /\ b <= 223 THEN (IF cont(2) THEN 2 ELSE 0)
        ELSE IF b = 224 THEN (IF in(2, 160, 191) /\ cont(3) THEN 3 ELSE 0)
        ELSE IF (b >= 225 /\ b <= 236) \/ b = 238 \/ b = 239
             THEN (IF cont(2) /\ cont(3) THEN 3 ELSE 0)
        ELSE IF b = 237 THEN (IF in(2, 128, 159) /\ cont(3) THEN 3 ELSE 0)
        ELSE IF b = 240
             THEN (IF in(2, 144, 191) /\ cont(3) /\ cont(4) THEN 4 ELSE 0)
        ELSE IF b >= 241 /\ b <= 243
             THEN (IF cont(2) /\ cont(3) /\ cont(4) THEN 4 ELSE 0)
        ELSE IF b = 244
             THEN (IF in(2, 128, 143) /\ cont(3) /\ cont(4) THEN 4 ELSE 0)
        ELSE 0
  IN  IF bs = << >> THEN TRUE
      ELSE IF size = 0 THEN FALSE
      ELSE ValidString(SubSeq(bs, size + 1, n))

\* the messageHeader before anything was read into it
NilHdr ==
  [magic |-> U64Zero, command |-> << >>, length |-> U64Zero,
   checksum |-> << 0, 0, 0, 0 >>, extLength |-> U64Zero]

\* the field values readElements leaves when the reader runs dry: the
\* destinations keep their zero value
fieldOr(vals, i, zero) == IF i <= Len(vals) THEN Unpack(vals[i]) ELSE zero

\* the fields of a header out of the 24 bytes hr: readElements reads the
\* four fields from hr, and when they are the extended-format sentinel it
\* reads the inner command and the extended length from hr again, which by
\* then has no byte left, so both keep their zero value
headerFields(hr) ==
  With(readFields(hr, << 4, CommandSize, 4, 4 >>), LAMBDA f :
   With([magic    |-> GetLE(fieldOr(f.vals, 1, << 0, 0, 0, 0 >>), 4),
         command  |-> TrimRight(fieldOr(f.vals, 2, padCommand(<< >>))),
         length   |-> GetLE(fieldOr(f.vals, 3, << 0, 0, 0, 0 >>), 4),
         checksum |-> fieldOr(f.vals, 4, << 0, 0, 0, 0 >>),
         extLength |-> U64Zero], LAMBDA hdr :
    IF hdr.command = CmdExtMsg /\ hdr.length = MaxUint32
       /\ hdr.checksum = << 0, 0, 0, 0 >>
    THEN With(readFields(f.rest, << CommandSize, 8 >>), LAMBDA x :
           [hdr EXCEPT
              !.command = TrimRight(fieldOr(x.vals, 1, padCommand(<< >>))),
              !.extLength =
                GetLE(fieldOr(x.vals, 2, << 0, 0, 0, 0, 0, 0, 0, 0 >>), 8)])
    ELSE hdr))

\* readMessageHeader: the 24 header bytes are read from r into headerBytes
\* and the fields are parsed out of a reader over headerBytes
readMessageHeader(r) ==
  With(ReadFull(r, U(MessageHeaderSize)), LAMBDA rf :
    IF rf.err # NoErr
    THEN [n |-> rf.n, hdr |-> NilHdr, err |-> rf.err, rest |-> rf.rest]
    ELSE [n |-> rf.n, hdr |-> headerFields(rf.data), err |-> NoErr,
          rest |-> rf.rest])

\* discardInput: n / 10240 reads of 10240 bytes, then one of n % 10240 bytes,
\* every error ignored; what is left of the reader.  The loop is written as
\* its effect on the reader: numReads reads of maxSize bytes take
\* numReads * maxSize bytes, or all there is.
discardInput(r, n) ==
  With(ReadFull(r, Mul(Div(n, discardChunk), discardChunk)).rest,
       LAMBDA afterLoop :
    IF Mod(n, discardChunk) > 0
    THEN ReadFull(afterLoop, U(Mod(n, discardChunk))).rest
    ELSE afterLoop)

\* discardInput reading into a single buffer of n bytes
discardInputOneBuffer(r, n) ==
  [rest |-> ReadFull(r, n).rest,
   reads |-> IF n = U64Zero THEN 0 ELSE 1,
   bufs |-> IF n = U64Zero THEN {} ELSE {n}]

\* the loop of discardInput: the reader after numReads calls of io.ReadFull
\* with the maxSize buffer, errors ignored
RECURSIVE discardLoop(_, _)
discardLoop(r, numReads) ==
  IF numReads = 0 THEN r
  ELSE discardLoop(ReadFull(r, U(discardChunk)).rest, numReads - 1)

\* discardInput read by read: the reader as it is left, how many times
\* io.ReadFull was called, and the sizes of the buffers made
discardInputReads(r, n) ==
  With(Small(Div(n, discardChunk)), LAMBDA numReads :
    With(Mod(n, discardChunk), LAMBDA bytesRemaining :
      With(IF Gt(n, U64Zero) THEN discardLoop(r, numReads) ELSE r,
           LAMBDA afterLoop :
        [rest |-> IF bytesRemaining > 0
                  THEN ReadFull(afterLoop, U(bytesRemaining)).rest
                  ELSE afterLoop,
         reads |-> (IF Gt(n, U64Zero) THEN numReads ELSE 0)
                     + (IF bytesRemaining > 0 THEN 1 ELSE 0),
         bufs |-> (IF Gt(n, U64Zero) THEN {U(discardChunk)} ELSE {})
                    \cup (IF bytesRemaining > 0 THEN {U(bytesRemaining)}
                          ELSE {})])))

\* lenp > int(m): the uint64 m is converted to a signed 64-bit int first
GtAsInt(lenp, m) == IF m[8] >= 128 THEN TRUE ELSE Gt(lenp, m)

\* the result of a WriteMessageWithEncodingN call that wrote nothing
wrote0(err, payload) ==
  [n |-> U64Zero, err |-> err, writes |-> << >>, payload |-> payload]

\* the header and payload of WriteMessageWithEncodingN's single w.Write
headerAndPayload(bsvnet, cmd, payload, lenp) ==
  Cat(Cat(Cat(Cat(PutLE(bsvnet, 4), Bytes(padCommand(cmd))),
              PutLE(IF Le(MaxUint32, GetLE(lenp, 4)) THEN MaxUint32
                    ELSE GetLE(lenp, 4), 4)),
          Bytes(DoubleHashB4(payload))),
      payload)

\* WriteMessageWithEncodingN(w, msg, pver, bsvnet, enc) under the excessive
\* block size e: the count and the error returned, and the byte strings
\* handed to w.Write, one per call.  wnil says that w is nil; any other
\* writer takes what it is given.
WriteMessageWithEncodingN(wnil, msg, pver, bsvnet, e) ==
  IF wnil THEN wrote0(plainError("writer must not be nil"), << >>)
  ELSE IF Len(Command(msg)) > CommandSize
  THEN wrote0(messageError("WriteMessage", "command is too long"), << >>)
  ELSE With(BsvEncode(msg, pver, e), LAMBDA enc :
    IF enc.err # NoErr THEN wrote0(enc.err, << >>)
    ELSE With(BLen(enc.out), LAMBDA lenp :
      IF GtAsInt(lenp, maxMessagePayload(e))
      THEN wrote0(messageError("WriteMessage", "payload above the global maximum"),
                  enc.out)
      ELSE IF Gt(lenp, MaxPayloadLength(msg, pver, e))
      THEN wrote0(messageError("WriteMessage", "payload above the type's maximum"),
                  enc.out)
      ELSE IF Gt(lenp, MaxUint32) THEN wrote0(enc.err, enc.out)
      ELSE With(headerAndPayload(bsvnet, Command(msg), enc.out, lenp), LAMBDA out :
             [n |-> BLen(out), err |-> NoErr, writes |-> << out >>,
              payload |-> enc.out])))

\* what ReadMessageWithEncodingN returns and what it did on the way: the
\* returned count, message, payload and error; the reader as the call
\* leaves it; the header as parsed; whether the payload buffer was made,
\* its size and whether the read filled it; whether the external handler
\* was called, with what, and what it returned; the step that returned
readResult(n, msg, payload, err, rest, hdr, step, alloc, hcall) ==
  [n |-> n, msg |-> msg, payload |-> payload, err |-> err, rest |-> rest,
   hdr |-> hdr, step |-> step, alloc |-> alloc, handler |-> hcall]

noAlloc == [made |-> FALSE, size |-> U64Zero, filled |-> FALSE]

\* what a handler that was never called has returned
noReturn ==
  [n |-> U64Zero, err |-> NoErr, rest |-> << >>, msg |-> NilMsg,
   payload |-> << >>]

noHandler ==
  [called |-> FALSE, r |-> << >>, length |-> U64Zero, sofar |-> U64Zero,
   ret |-> noReturn]

\* the header was refused at step: nothing allocated, no handler called
refused(h, step, why, rest) ==
  readResult(h.n, NilMsg, << >>, messageError("ReadMessage", why), rest, h.hdr,
             step, noAlloc, noHandler)

\* a registered external handler, as far as the framing layer can tell: it
\* either streams the announced bytes off the reader and returns a message
\* of its own making with the first four bytes it saw as the payload, or
\* fails without reading
callHandler(how, r, length, totalBytes) ==
  IF how = "stream"
  THEN With(ReadFull(r, length), LAMBDA rf :
         [n |-> Add(totalBytes, rf.n), err |-> rf.err, rest |-> rf.rest,
          msg |-> IF rf.err = NoErr THEN [type |-> "external"] ELSE NilMsg,
          payload |-> IF rf.err = NoErr THEN Take(rf.data, U(4)) ELSE << >>])
  ELSE [n |-> totalBytes, err |-> plainError("handler failed"), rest |-> r,
        msg |-> NilMsg, payload |-> << >>]

\* readPayload without the comparison of the checksums
readPayloadUnverified(h, msg, length, pver, e, handlers, how) ==
  IF h.hdr.command \in handlers
  THEN With(callHandler(how, h.rest, length, h.n), LAMBDA hres :
         readResult(hres.n, hres.msg, hres.payload, hres.err, hres.rest,
                    h.hdr, "handler", noAlloc,
                    [called |-> TRUE, r |-> h.rest, length |-> length,
                     sofar |-> h.n, ret |-> hres]))
  ELSE With(ReadFull(h.rest, length), LAMBDA rf :
    With([made |-> TRUE, size |-> length, filled |-> rf.err = NoErr],
         LAMBDA alloc :
      IF rf.err # NoErr
      THEN readResult(Add(h.n, rf.n), NilMsg, << >>, rf.err, rf.rest, h.hdr,
                      "payload", alloc, noHandler)
      ELSE With(Bsvdecode(msg, rf.data, pver, e), LAMBDA dec :
        IF dec.err # NoErr
        THEN readResult(Add(h.n, rf.n), NilMsg, << >>, dec.err, rf.rest, h.hdr,
                        "decode", alloc, noHandler)
        ELSE readResult(Add(h.n, rf.n), dec.msg, rf.data, NoErr, rf.rest,
                        h.hdr, "ok", alloc, noHandler))))

\* readPayload with the handler called only after the payload was read into
\* memory and its checksum compared
readPayloadBuffersFirst(h, msg, length, pver, e, handlers, how) ==
  With(ReadFull(h.rest, length), LAMBDA rf :
    With([made |-> TRUE, size |-> length, filled |-> rf.err = NoErr],
         LAMBDA alloc :
      IF rf.err # NoErr
      THEN readResult(Add(h.n, rf.n), NilMsg, << >>, rf.err, rf.rest, h.hdr,
                      "payload", alloc, noHandler)
      ELSE IF length # MaxUint32 /\ h.hdr.extLength = U64Zero
              /\ DoubleHashB4(rf.data) # h.hdr.checksum
      THEN readResult(Add(h.n, rf.n), NilMsg, << >>,
                      messageError("ReadMessage", "payload checksum failed"),
                      rf.rest, h.hdr, "checksum", alloc, noHandler)
      ELSE IF h.hdr.command \in handlers
      THEN With(callHandler(how, rf.rest, U64Zero, Add(h.n, rf.n)), LAMBDA hres :
             readResult(hres.n, hres.msg, hres.payload, hres.err, hres.rest,
                        h.hdr, "handler", alloc,
                        [called |-> TRUE, r |-> rf.rest, length |-> U64Zero,
                         sofar |-> Add(h.n, rf.n), ret |-> hres]))
      ELSE With(Bsvdecode(msg, rf.data, pver, e), LAMBDA dec :
        IF dec.err # NoErr
        THEN readResult(Add(h.n, rf.n), NilMsg, << >>, dec.err, rf.rest, h.hdr,
                        "decode", alloc, noHandler)
        ELSE readResult(Add(h.n, rf.n), dec.msg, rf.data, NoErr, rf.rest,
                        h.hdr, "ok", alloc, noHandler))))

\* ReadMessageWithEncodingN from the payload on: the handler if one is
\* registered, else the buffer, the read, the checksum and the decoding
readPayload(h, msg, length, pver, e, handlers, how) ==
  IF h.hdr.command \in handlers
  THEN With(callHandler(how, h.rest, length, h.n), LAMBDA hres :
         readResult(hres.n, hres.msg, hres.payload, hres.err, hres.rest,
                    h.hdr, "handler", noAlloc,
                    [called |-> TRUE, r |-> h.rest, length |-> length,
                     sofar |-> h.n, ret |-> hres]))
  ELSE With(ReadFull(h.rest, length), LAMBDA rf :
    With([made |-> TRUE, size |-> length, filled |-> rf.err = NoErr],
         LAMBDA alloc :
      IF rf.err # NoErr
      THEN readResult(Add(h.n, rf.n), NilMsg, << >>, rf.err, rf.rest, h.hdr,
                      "payload", alloc, noHandler)
      ELSE IF length # MaxUint32 /\ h.hdr.extLength = U64Zero
              /\ DoubleHashB4(rf.data) # h.hdr.checksum
      THEN readResult(Add(h.n, rf.n), NilMsg, << >>,
                      messageError("ReadMessage", "payload checksum failed"),
                      rf.rest, h.hdr, "checksum", alloc, noHandler)
      ELSE With(Bsvdecode(msg, rf.data, pver, e), LAMBDA dec :
        IF dec.err # NoErr
        THEN readResult(Add(h.n, rf.n), NilMsg, << >>, dec.err, rf.rest, h.hdr,
                        "decode", alloc, noHandler)
        ELSE readResult(Add(h.n, rf.n), dec.msg, rf.data, NoErr, rf.rest,
                        h.hdr, "ok", alloc, noHandler))))

\* ReadMessageWithEncodingN without the check of the announced length
\* against the type's MaxPayloadLength
ReadMessageNoPerTypeCheck(r, pver, bsvnet, e, handlers, how) ==
  With(readMessageHeader(r), LAMBDA h :
    IF h.err # NoErr
    THEN readResult(h.n, NilMsg, << >>, h.err, h.rest, h.hdr, "header",
                    noAlloc, noHandler)
    ELSE IF Gt(h.hdr.length, maxMessagePayload(e))
            \/ Gt(h.hdr.extLength, maxMessagePayload(e))
    THEN refused(h, "global", "payload above the global maximum", h.rest)
    ELSE IF h.hdr.magic # bsvnet
    THEN refused(h, "magic", "message from other network",
                 discardInput(h.rest, h.hdr.length))
    ELSE IF ~ValidString(h.hdr.command)
    THEN refused(h, "command", "invalid command",
                 discardInput(h.rest, h.hdr.length))
    ELSE With(makeEmptyMessage(h.hdr.command), LAMBDA made :
      IF made.err # NoErr
      THEN refused(h, "registry", made.err.why,
                   discardInput(h.rest, h.hdr.length))
      ELSE readPayload(h, made.msg,
                       IF h.hdr.length = MaxUint32 THEN h.hdr.extLength
                       ELSE h.hdr.length,
                       pver, e, handlers, how)))

\* ReadMessageWithEncodingN with the network check moved in front of the
\* global ceiling
ReadMessageMagicFirst(r, pver, bsvnet, e, handlers, how) ==
  With(readMessageHeader(r), LAMBDA h :
    IF h.err # NoErr
    THEN readResult(h.n, NilMsg, << >>, h.err, h.rest, h.hdr, "header",
                    noAlloc, noHandler)
    ELSE IF h.hdr.magic # bsvnet
    THEN refused(h, "magic", "message from other network",
                 discardInput(h.rest, h.hdr.length))
    ELSE IF Gt(h.hdr.length, maxMessagePayload(e))
            \/ Gt(h.hdr.extLength, maxMessagePayload(e))
    THEN refused(h, "global", "payload above the global maximum", h.rest)
    ELSE IF ~ValidString(h.hdr.command)
    THEN refused(h, "command", "invalid command",
                 discardInput(h.rest, h.hdr.length))
    ELSE With(makeEmptyMessage(h.hdr.command), LAMBDA made :
      IF made.err # NoErr
      THEN refused(h, "registry", made.err.why,
                   discardInput(h.rest, h.hdr.length))
      ELSE With(MaxPayloadLength(made.msg, pver, e), LAMBDA mpl :
        IF Gt(h.hdr.length, mpl) \/ Gt(h.hdr.extLength, mpl)
        THEN refused(h, "pertype", "payload above the type's maximum",
                     discardInput(h.rest, h.hdr.length))
        ELSE readPayload(h, made.msg,
                         IF h.hdr.length = MaxUint32 THEN h.hdr.extLength
                         ELSE h.hdr.length,
                         pver, e, handlers, how))))

\* ReadMessageWithEncodingN(r, pver, bsvnet, enc) under the excessive block
\* size e and the registered handlers; how is what a called handler does
ReadMessageWithEncodingN(r, pver, bsvnet, e, handlers, how) ==
  With(readMessageHeader(r), LAMBDA h :
    IF h.err # NoErr
    THEN readResult(h.n, NilMsg, << >>, h.err, h.rest, h.hdr, "header",
                    noAlloc, noHandler)
    ELSE IF Gt(h.hdr.length, maxMessagePayload(e))
            \/ Gt(h.hdr.extLength, maxMessagePayload(e))
    THEN refused(h, "global", "payload above the global maximum", h.rest)
    ELSE IF h.hdr.magic # bsvnet
    THEN refused(h, "magic", "message from other network",
                 discardInput(h.rest, h.hdr.length))
    ELSE IF ~ValidString(h.hdr.command)
    THEN refused(h, "command", "invalid command",
                 discardInput(h.rest, h.hdr.length))
    ELSE With(makeEmptyMessage(h.hdr.command), LAMBDA made :
      IF made.err # NoErr
      THEN refused(h, "registry", made.err.why,
                   discardInput(h.rest, h.hdr.length))
      ELSE With(MaxPayloadLength(made.msg, pver, e), LAMBDA mpl :
        IF Gt(h.hdr.length, mpl) \/ Gt(h.hdr.extLength, mpl)
        THEN refused(h, "pertype", "payload above the type's maximum",
                     discardInput(h.rest, h.hdr.length))
        ELSE readPayload(h, made.msg,
                         IF h.hdr.length = MaxUint32 THEN h.hdr.extLength
                         ELSE h.hdr.length,
                         pver, e, handlers, how))))

\* ReadMessageWithEncodingN with each of its reads of the package variable
\* ebs returning what that read sees: seen[1] and seen[2] in the two
\* maxMessagePayload() calls of the global check, seen[3] in
\* msg.MaxPayloadLength(pver), seen[4] in msg.Bsvdecode
ReadMessageSeeing(r, pver, bsvnet, seen, handlers, how) ==
  With(readMessageHeader(r), LAMBDA h :
    IF h.err # NoErr
    THEN readResult(h.n, NilMsg, << >>, h.err, h.rest, h.hdr, "header",
                    noAlloc, noHandler)
    ELSE IF Gt(h.hdr.length, maxMessagePayload(seen[1]))
            \/ Gt(h.hdr.extLength, maxMessagePayload(seen[2]))
    THEN refused(h, "global", "payload above the global maximum", h.rest)
    ELSE IF h.hdr.magic # bsvnet
    THEN refused(h, "magic", "message from other network",
                 discardInput(h.rest, h.hdr.length))
    ELSE IF ~ValidString(h.hdr.command)
    THEN refused(h, "command", "invalid command",
                 discardInput(h.rest, h.hdr.length))
    ELSE With(makeEmptyMessage(h.hdr.command), LAMBDA made :
      IF made.err # NoErr
      THEN refused(h, "registry", made.err.why,
                   discardInput(h.rest, h.hdr.length))
      ELSE With(MaxPayloadLength(made.msg, pver, seen[3]), LAMBDA mpl :
        IF Gt(h.hdr.length, mpl) \/ Gt(h.hdr.extLength, mpl)
        THEN refused(h, "pertype", "payload above the type's maximum",
                     discardInput(h.rest, h.hdr.length))
        ELSE readPayload(h, made.msg,
                         IF h.hdr.length = MaxUint32 THEN h.hdr.extLength
                         ELSE h.hdr.length,
                         pver, seen[4], handlers, how))))

-----------------------------------------------------------------------------
\* The state: the package-level excessive block size and external handler
\* table, the stream a connection reads from, and the last call made with
\* what it was given and what it returned.

VARIABLES ebs, externalHandler, r, reads, res

vars == << ebs, externalHandler, r, reads, res >>

\* how many messages a connection tries to read off its stream
MaxReads == 3

\* how many honest messages may follow the first frame on a stream
MaxTail == 1

\* the excessive block sizes a node is run with: the default, and one large
\* enough for payloads that need more than 32 bits of length
defaultEbs == U(32000000)

largeEbs == Mul(U(1000000000), 5)

EbsValues == {defaultEbs, largeEbs}

PverValues == {BIP0031Version, ProtocolVersion}

NetValues == {MainNet, TestNet}

\* the commands an embedder registers a streaming handler for
HandlerCommands == {CmdMerkleBlock}

HandlerOutcomes == {"stream", "fail"}

pongNonce == U(123123)

\* the 24 bytes of a header as a peer puts them on the wire
headerBytes(magic, command, length, checksum) ==
  Cat(Cat(Cat(PutLE(magic, 4), Bytes(padCommand(command))), PutLE(length, 4)),
      Bytes(checksum))

\* the payload a peer sends after announcing length bytes
peerPayload(length) ==
  IF length = U(8) THEN PutLE(pongNonce, 8) ELSE Rep(0, length)

\* a legacy frame; sent = FALSE is a peer that announces a payload and
\* does not send it
legacyFrame(magic, command, length, good, sent) ==
  Cat(headerBytes(magic, command, length,
                  IF good THEN DoubleHashB4(peerPayload(length))
                  ELSE << 0, 0, 0, 0 >>),
      IF sent THEN peerPayload(length) ELSE << >>)

\* an extended-format frame: the sentinel header, the inner command, the
\* 8-byte true length, the payload
extendedFrame(magic, inner, trueLength) ==
  Cat(Cat(Cat(headerBytes(magic, CmdExtMsg, MaxUint32, << 0, 0, 0, 0 >>),
              Bytes(padCommand(inner))),
          PutLE(trueLength, 8)),
      peerPayload(trueLength))

invalidText == << 255, 254 >>

unknownCommand == << 98, 111, 103, 117, 115 >>

PeerCommands ==
  {CmdVerAck, CmdPong, CmdMerkleBlock, CmdGetCFHeaders, invalidText,
   unknownCommand}

PeerLengths == {U64Zero, U(8), MaxUint32}

FirstFrames ==
  {legacyFrame(m, c, l, g, sent) :
     m \in NetValues, c \in PeerCommands, l \in PeerLengths,
     g \in BOOLEAN, sent \in BOOLEAN}
  \cup {extendedFrame(m, CmdPong, U(8)) : m \in NetValues}

honestFrame == legacyFrame(MainNet, CmdVerAck, U64Zero, TRUE, TRUE)

RECURSIVE honestTail(_)
honestTail(k) == IF k = 0 THEN << >> ELSE Cat(honestFrame, honestTail(k - 1))

Streams == {Cat(f, honestTail(k)) : f \in FirstFrames, k \in 0..MaxTail}

NoCall == [op |-> "none"]

InitPackage ==
  /\ ebs = defaultEbs
  /\ externalHandler = {}

\* SetLimits(excessiveBlockSize)
SetLimits(e) ==
  /\ ebs' = e
  /\ res' = [op |-> "SetLimits"]
  /\ UNCHANGED << externalHandler, r, reads >>

\* SetExternalHandler(cmd, handler), handler nil or not
SetExternalHandler(cmd, isNil) ==
  /\ externalHandler' = IF isNil THEN externalHandler \ {cmd}
                        ELSE externalHandler \cup {cmd}
  /\ res' = [op |-> "SetExternalHandler"]
  /\ UNCHANGED << ebs, r, reads >>

\* one ReadMessageWithEncodingN call on the connection's stream
ReadMessage(pver, bsvnet, how) ==
  /\ r # << >>
  /\ reads < MaxReads
  /\ reads' = reads + 1
  /\ \E out \in {ReadMessageWithEncodingN(r, pver, bsvnet, ebs,
                                           externalHandler, how)} :
       /\ r' = out.rest
       /\ res' = [op |-> "ReadMessage", in |-> r, pver |-> pver,
                  bsvnet |-> bsvnet, ebs |-> ebs,
                  handlers |-> externalHandler, out |-> out]
  /\ UNCHANGED << ebs, externalHandler >>

InitRead ==
  /\ InitPackage
  /\ r \in Streams
  /\ reads = 0
  /\ res = NoCall

NextRead ==
  \/ \E e \in EbsValues : SetLimits(e)
  \/ \E cmd \in HandlerCommands, isNil \in BOOLEAN : SetExternalHandler(cmd, isNil)
  \/ \E pver \in PverValues, bsvnet \in NetValues, how \in HandlerOutcomes :
       ReadMessage(pver, bsvnet, how)

SpecRead == InitRead /\ [][NextRead]_vars

-----------------------------------------------------------------------------
\* Writing.  A caller hands WriteMessageWithEncodingN a message and a fresh
\* buffer, and may then read the buffer back with the version and network
\* it wrote with.

tooLongCommand == << 115, 111, 109, 101, 116, 104, 105, 110, 103, 116, 111, 111,
                     108, 111, 110, 103 >>

fakeCommand == << 102, 97, 107, 101 >>

someID == Bytes(<< 1, 2, 3 >>)

somePolicy == Bytes(<< 66, 108, 111, 99, 107 >>)

someHash == Rep(7, U(HashSize))

WriteMessages ==
  {NewMsgVerAck, NewMsgPong(pongNonce), NewMsgMemPool,
   NewMsgGetCFHeaders(0, U(1000), someHash),
   NewMsgStreamAck(someID, 1),
   NewMsgCreateStream(someID, 1, somePolicy),
   NewMsgCreateStream(<< >>, 1, somePolicy),
   NewMsgMerkleBlock(zeroBlockHeader),
   NewMsgStreamAck(Rep(9, U(MaxAssociationIDLen + MaxVarIntPayload - 1)), 1),
   NewMsgStreamAck(Rep(9, U(MaxAssociationIDLen + MaxVarIntPayload)), 1),
   NewMsgCreateStream(someID, 1, Rep(80, U(MaxUserAgentLen))),
   NewMsgCreateStream(someID, 1, Rep(80, U(2 * MaxUserAgentLen))),
   fakeMessage(tooLongCommand, << >>, FALSE, FALSE),
   fakeMessage(fakeCommand, << >>, TRUE, FALSE),
   fakeMessage(fakeCommand, Bytes(<< 1 >>), FALSE, TRUE),
   fakeMessage(fakeCommand, Bytes(<< 1 >>), FALSE, FALSE),
   fakeMessage(fakeCommand, Rep(0, Sub(MaxUint32, U(1))), FALSE, FALSE),
   fakeMessage(fakeCommand, Rep(0, MaxUint32), FALSE, FALSE),
   fakeMessage(fakeCommand, Rep(0, TwoPow32), FALSE, FALSE),
   fakeMessage(CmdPong, Rep(0, TwoPow32), FALSE, FALSE)}

\* all the bytes a writer was handed, in order
RECURSIVE written(_)
written(writes) ==
  IF writes = << >> THEN << >> ELSE Cat(writes[1], written(Tail(writes)))

\* one WriteMessageWithEncodingN call on a fresh buffer, or on a nil writer
WriteMessage(wnil, msg, pver, bsvnet) ==
  /\ res' = [op |-> "WriteMessage", wnil |-> wnil, msg |-> msg, pver |-> pver,
             bsvnet |-> bsvnet, ebs |-> ebs,
             out |-> WriteMessageWithEncodingN(wnil, msg, pver, bsvnet, ebs)]
  /\ UNCHANGED << ebs, externalHandler, r, reads >>

\* ReadMessageWithEncodingN on the buffer the last call wrote without error,
\* with the version and the network it was written with
ReadBack ==
  /\ res.op = "WriteMessage"
  /\ res.out.err = NoErr
  /\ res' = [op |-> "ReadBack", write |-> res,
             out |-> ReadMessageWithEncodingN(written(res.out.writes), res.pver,
                                              res.bsvnet, ebs, externalHandler,
                                              "fail")]
  /\ UNCHANGED << ebs, externalHandler, r, reads >>

InitWrite ==
  /\ InitPackage
  /\ r = << >>
  /\ reads = 0
  /\ res = NoCall

NextWrite ==
  \/ \E e \in EbsValues : SetLimits(e)
  \/ \E wnil \in BOOLEAN, msg \in WriteMessages, pver \in PverValues,
        bsvnet \in NetValues : WriteMessage(wnil, msg, pver, bsvnet)
  \/ ReadBack

SpecWrite == InitWrite /\ [][NextWrite]_vars

-----------------------------------------------------------------------------
\* The registry, applied to one command string: every command constant of
\* the package, each of them cut short by a byte, and the empty string.

CmdAll ==
  {CmdVersion, CmdVerAck, CmdGetAddr, CmdAddr, CmdGetBlocks, CmdInv,
   CmdGetData, CmdNotFound, CmdBlock, CmdTx, CmdExtendedTx, CmdGetHeaders,
   CmdHeaders, CmdPing, CmdPong, CmdMemPool, CmdFilterAdd, CmdFilterClear,
   CmdFilterLoad, CmdMerkleBlock, CmdReject, CmdSendHeaders, CmdFeeFilter,
   CmdGetCFilters, CmdGetCFHeaders, CmdGetCFCheckpt, CmdCFilter, CmdCFHeaders,
   CmdCFCheckpt, CmdProtoconf, CmdExtMsg, CmdSendcmpct, CmdAuthch,
   CmdAuthresp, CmdCreateStream, CmdStreamAck}

RegistryInputs ==
  CmdAll \cup {SubSeq(c, 1, Len(c) - 1) : c \in CmdAll} \cup {unknownCommand}

\* makeEmptyMessage(command) for the command drawn
LookUp ==
  /\ res.op = "command"
  /\ res' = [op |-> "makeEmptyMessage", command |-> res.command,
             out |-> makeEmptyMessage(res.command)]
  /\ UNCHANGED << ebs, externalHandler, r, reads >>

InitRegistry ==
  /\ InitPackage
  /\ r = << >>
  /\ reads = 0
  /\ res \in {[op |-> "command", command |-> c] : c \in RegistryInputs}

NextRegistry == LookUp

SpecRegistry == InitRegistry /\ [][NextRegistry]_vars

-----------------------------------------------------------------------------
\* The message codecs, called directly: a message is built by its
\* constructor, grown by add calls or by assigning to its fields, and encoded
\* into a bytes.Buffer; payload bytes are decoded into a zero-valued receiver.

\* how many add calls are made on one message
MaxAdds == 4

codecEbs == {U64Zero, U(20), defaultEbs}

\* the versions around every gate
CodecPver ==
  UNION {{v - 1, v, v + 1} :
           v \in {BIP0031Version, BIP0035Version, BIP0037Version,
                  SendHeadersVersion, FeeFilterVersion}}
    \cup {ProtocolVersion}

someInv == Rep(0, U(maxInvVectPayload))

\* a MsgNotFound after n successful AddInvVect calls
filledNotFound(n) ==
  [NewMsgNotFound EXCEPT !.InvList = Rep(0, U(n * maxInvVectPayload))]

idOf(n) == Rep(9, U(n))

someKey == Rep(3, U(SECP256K1_COMP_PUB_KEY_SIZE_IN_BYTES))

someSignature == Rep(48, U(SECP256K1_DER_SIGN_MAX_SIZE_IN_BYTES))

CodecMessages ==
  {NewMsgPong(pongNonce), NewMsgMemPool, NewMsgFilterClear, NewMsgSendHeaders,
   NewMsgFeeFilter(U(1000)), NewMsgMerkleBlock(zeroBlockHeader),
   NewMsgGetCFHeaders(1, U(1000), someHash), NewMsgGetCFCheckpt(1, someHash),
   NewMsgNotFound, filledNotFound(MaxInvPerMsg - 1),
   NewMsgAuthresp(someKey, someSignature, pongNonce),
   NewMsgAuthresp(<< >>, << >>, pongNonce)}
    \cup {NewMsgCreateStream(idOf(n), 1, somePolicy) :
            n \in {0, 1, MaxAssociationIDLen, MaxAssociationIDLen + 1}}
    \cup {NewMsgStreamAck(idOf(n), 1) :
            n \in {0, 1, MaxAssociationIDLen, MaxAssociationIDLen + 1}}

\* the wire form of a merkle block with a zero header and transaction count,
\* declaring count hashes and flagCount flag bytes
merkleWire(count, hashes, flagCount, flags) ==
  Cat(Cat(Cat(Cat(Rep(0, U(84)), WriteVarInt(count)), hashes),
          WriteVarInt(flagCount)),
      flags)

\* the wire form of an auth response: varint-prefixed key, nonce,
\* varint-prefixed signature
authrespWire(keyLen, sigLen) ==
  Cat(Cat(WriteVarBytes(Rep(3, U(keyLen))), PutLE(pongNonce, 8)),
      WriteVarBytes(Rep(48, U(sigLen))))

\* the payloads handed to Bsvdecode, by receiver type, under the excessive
\* block size e
DecodeInputs(e) ==
  {<< "MsgPong", PutLE(pongNonce, 8) >>, << "MsgPong", Bytes(<< 1, 2 >>) >>,
   << "MsgMemPool", Bytes(<< 1 >>) >>, << "MsgFilterClear", Bytes(<< 1 >>) >>,
   << "MsgSendHeaders", Bytes(<< 1 >>) >>,
   << "MsgFeeFilter", PutLE(U(1000), 8) >>,
   << "MsgNotFound", Cat(WriteVarInt(U(MaxInvPerMsg + 1)), someInv) >>,
   << "MsgNotFound",
      Cat(WriteVarInt(U(MaxInvPerMsg)),
          Rep(0, U(MaxInvPerMsg * maxInvVectPayload))) >>,
   << "MsgNotFound", Cat(WriteVarInt(U(1)), someInv) >>,
   << "MsgNotFound", Cat(WriteVarInt(U(2)), Cat(someInv, Bytes(<< 1, 0, 0, 0 >>))) >>,
   << "MsgMerkleBlock",
      merkleWire(Add(maxTxPerBlock(e), U(1)), someHash, U64Zero, << >>) >>,
   << "MsgMerkleBlock",
      merkleWire(U(1), someHash, Add(maxFlagsPerMerkleBlock(e), U(1)),
                 Rep(0, Add(maxFlagsPerMerkleBlock(e), U(1)))) >>,
   << "MsgMerkleBlock",
      merkleWire(U(1), someHash, maxFlagsPerMerkleBlock(e),
                 Rep(0, maxFlagsPerMerkleBlock(e))) >>,
   << "MsgMerkleBlock", merkleWire(U64Zero, << >>, U64Zero, << >>) >>}
    \cup {<< "MsgCreateStream",
             Cat(Cat(WriteVarBytes(idOf(n)), Bytes(<< 1 >>)),
                 WriteVarString(somePolicy)) >> :
            n \in {0, 1, MaxAssociationIDLen, MaxAssociationIDLen + 1}}
    \cup {<< "MsgStreamAck", Cat(WriteVarBytes(idOf(n)), Bytes(<< 1 >>)) >> :
            n \in {0, 1, MaxAssociationIDLen, MaxAssociationIDLen + 1}}
    \cup {<< "MsgAuthresp", authrespWire(k[1], k[2]) >> :
            k \in {<< 33, 72 >>, << 34, 72 >>, << 33, 73 >>, << 121, 121 >>,
                   << 122, 72 >>, << 33, 122 >>, << 0, 0 >>}}

\* no message is at hand: the package was just loaded or configured
idle == res.op \in {"none", "SetLimits"}

\* a variant constructor
New(msg) ==
  /\ idle
  /\ res' = [op |-> "New", msg |-> msg, adds |-> 0, built |-> TRUE]
  /\ UNCHANGED << ebs, externalHandler, r, reads >>

isList(msg) == msg.type \in {"MsgNotFound", "MsgMerkleBlock"}

\* AddInvVect / AddTxHash on the message under construction
AddItem ==
  /\ res.op \in {"New", "Add"}
  /\ isList(res.msg)
  /\ res.adds < MaxAdds
  /\ \E out \in {IF res.msg.type = "MsgNotFound"
                 THEN AddInvVect(res.msg, someInv)
                 ELSE AddTxHash(res.msg, someHash, ebs)} :
       res' = [op |-> "Add", before |-> res.msg, msg |-> out.msg,
               err |-> out.err, ebs |-> ebs, adds |-> res.adds + 1,
               built |-> res.built]
  /\ UNCHANGED << ebs, externalHandler, r, reads >>

\* the list fields assigned directly, as far as one past their maximum
Mutate(field) ==
  /\ res.op \in {"New", "Add"}
  /\ isList(res.msg)
  /\ \/ /\ field = "InvList"
        /\ res.msg.type = "MsgNotFound"
        /\ res' = [op |-> "Mutate",
                   msg |-> [res.msg EXCEPT
                              !.InvList = Rep(0, U((MaxInvPerMsg + 1)
                                                   * maxInvVectPayload))],
                   adds |-> res.adds, built |-> FALSE]
     \/ /\ field = "Hashes"
        /\ res.msg.type = "MsgMerkleBlock"
        /\ Len(res.msg.Hashes) < MaxAdds
        /\ res' = [op |-> "Mutate",
                   msg |-> [res.msg EXCEPT !.Hashes = Append(@, someHash)],
                   adds |-> res.adds, built |-> FALSE]
     \/ /\ field = "Flags"
        /\ res.msg.type = "MsgMerkleBlock"
        /\ \E n \in {maxFlagsPerMerkleBlock(ebs),
                     Add(maxFlagsPerMerkleBlock(ebs), U(1))} :
             res' = [op |-> "Mutate",
                     msg |-> [res.msg EXCEPT !.Flags = Rep(0, n)],
                     adds |-> res.adds, built |-> FALSE]
  /\ UNCHANGED << ebs, externalHandler, r, reads >>

\* msg.BsvEncode(&buf, pver, enc) on the message at hand
Encode(pver) ==
  /\ res.op \in {"New", "Add", "Mutate"}
  /\ \E out \in {BsvEncode(res.msg, pver, ebs)} :
       res' = [op |-> "BsvEncode", msg |-> res.msg, built |-> res.built,
               pver |-> pver, ebs |-> ebs, out |-> out]
  /\ UNCHANGED << ebs, externalHandler, r, reads >>

\* receiver.Bsvdecode(bytes.NewReader(s), pver, enc); sent is the message
\* whose encoding s is, when it is one
Decode(receiver, s, pver, sent) ==
  /\ \E out \in {Bsvdecode(receiver, s, pver, ebs)} :
       res' = [op |-> "Bsvdecode", msg |-> receiver, s |-> s, pver |-> pver,
               ebs |-> ebs, sent |-> sent, out |-> out]
  /\ UNCHANGED << ebs, externalHandler, r, reads >>

\* the bytes of the last successful BsvEncode decoded at the same version
DecodeEncoded ==
  /\ res.op = "BsvEncode"
  /\ res.out.err = NoErr
  /\ Decode(emptyMessage(res.msg.type), res.out.out, res.pver, res.msg)

Receivers(type) ==
  {emptyMessage(type)}
    \cup (IF type = "MsgPong" THEN {NewMsgPong(pongNonce)} ELSE {})

InitCodec ==
  /\ InitPackage
  /\ r = << >>
  /\ reads = 0
  /\ res = NoCall

NextCodec ==
  \/ \E e \in codecEbs : SetLimits(e)
  \/ \E msg \in CodecMessages : New(msg)
  \/ AddItem
  \/ \E field \in {"InvList", "Hashes", "Flags"} : Mutate(field)
  \/ \E pver \in CodecPver : Encode(pver)
  \/ /\ idle
     /\ \E in \in DecodeInputs(ebs), pver \in CodecPver :
          \E receiver \in Receivers(in[1]) :
            Decode(receiver, in[2], pver, NilMsg)
  \/ DecodeEncoded

SpecCodec == InitCodec /\ [][NextCodec]_vars

----------------------------------------------------------------------------
\* A list message held by its caller while the limits change: built by its
\* constructor and add calls, encoded and decoded, with SetLimits called in
\* between.

ListMessages ==
  {NewMsgNotFound, filledNotFound(MaxInvPerMsg - 1),
   NewMsgMerkleBlock(zeroBlockHeader)}

\* SetLimits(e) while the caller holds the message of the last call
SetLimitsHolding(e) ==
  /\ res.op \in {"New", "Add"}
  /\ e # ebs
  /\ ebs' = e
  /\ UNCHANGED << externalHandler, r, reads, res >>

NextLists ==
  \/ \E e \in codecEbs : SetLimits(e)
  \/ \E msg \in ListMessages : New(msg)
  \/ AddItem
  \/ \E e \in codecEbs : SetLimitsHolding(e)
  \/ Encode(ProtocolVersion)
  \/ DecodeEncoded

SpecLists == InitCodec /\ [][NextLists]_vars

----------------------------------------------------------------------------
\* The limits derived from the excessive block size: SetLimits with any
\* uint64, and the three derived figures as the next call computes them.

MaxUint64 == << 255, 255, 255, 255, 255, 255, 255, 255 >>

\* 2^k as a uint64, k in 0..63
Pow2(k) ==
  [i \in 1..8 |-> IF i = (k \div 8) + 1
                  THEN CHOOSE p \in {1, 2, 4, 8, 16, 32, 64, 128} :
                         \E j \in 0..7 : j = k % 8 /\ p = 2 ^ j
                  ELSE 0]

\* the values given to SetLimits: around every power of two, every decimal
\* million from 1 to 9, the default and the largest
LimitValues ==
  {Pow2(k) : k \in 0..63} \cup {Sub(Pow2(k), U(1)) : k \in 0..63}
    \cup {U(m * 1000000) : m \in 1..9} \cup {U((m * 1000000) - 1) : m \in 1..9}
    \cup {defaultEbs, largeEbs, MaxUint64}

\* maxMessagePayload(), maxTxPerBlock() and maxFlagsPerMerkleBlock() as a
\* call made now computes them
ReadLimits ==
  /\ res.op # "limits"
  /\ res' = [op |-> "limits", ebs |-> ebs,
             maxMessagePayload |-> maxMessagePayload(ebs),
             maxTxPerBlock |-> maxTxPerBlock(ebs),
             maxFlagsPerMerkleBlock |-> maxFlagsPerMerkleBlock(ebs)]
  /\ UNCHANGED << ebs, externalHandler, r, reads >>

InitLimits ==
  /\ InitPackage
  /\ r = << >>
  /\ reads = 0
  /\ res = NoCall

NextLimits ==
  \/ \E e \in LimitValues : SetLimits(e)
  \/ ReadLimits

SpecLimits == InitLimits /\ [][NextLimits]_vars

----------------------------------------------------------------------------
\* Variable length integers written and read back.

\* the values written: around every power of two, and around the marker
VarIntValues ==
  {Pow2(k) : k \in 0..63} \cup {Sub(Pow2(k), U(1)) : k \in 0..63}
    \cup {U(252), U(253), U(254), MaxUint64}

\* WriteVarInt(&buf, pver, val)
WriteVarIntTo(val) ==
  /\ res.op # "WriteVarInt"
  /\ res' = [op |-> "WriteVarInt", val |-> val, out |-> WriteVarInt(val)]
  /\ UNCHANGED << ebs, externalHandler, r, reads >>

\* ReadVarInt(bytes.NewReader(buf.Bytes()), pver)
ReadVarIntBack ==
  /\ res.op = "WriteVarInt"
  /\ res' = [op |-> "ReadVarInt", val |-> res.val, s |-> res.out,
             out |-> ReadVarInt(res.out)]
  /\ UNCHANGED << ebs, externalHandler, r, reads >>

InitVarInt ==
  /\ InitPackage
  /\ r = << >>
  /\ reads = 0
  /\ res = NoCall

NextVarInt ==
  \/ \E v \in VarIntValues : WriteVarIntTo(v)
  \/ ReadVarIntBack

SpecVarInt == InitVarInt /\ [][NextVarInt]_vars

----------------------------------------------------------------------------
\* discardInput called on readers that hold more than, as much as and less
\* than it is told to discard.

\* lengths around one, two and three chunks
DiscardSizes ==
  {0, 1, 100, discardChunk - 1, discardChunk, discardChunk + 1,
   (2 * discardChunk) - 1, 2 * discardChunk, (2 * discardChunk) + 1,
   3 * discardChunk, 40000}

\* discardInput(r, n)
DiscardInput(n) ==
  /\ res.op = "none"
  /\ \E out \in {discardInputReads(r, n)} :
       /\ r' = out.rest
       /\ res' = [op |-> "discardInput", r |-> r, n |-> n, out |-> out]
  /\ UNCHANGED << ebs, externalHandler, reads >>

InitDiscard ==
  /\ InitPackage
  /\ r \in {Rep(7, U(k)) : k \in DiscardSizes}
  /\ reads = 0
  /\ res = NoCall

NextDiscard == \E k \in DiscardSizes : DiscardInput(U(k))

SpecDiscard == InitDiscard /\ [][NextDiscard]_vars

----------------------------------------------------------------------------
\* A ReadMessage call on one goroutine while another calls SetLimits.  ebs
\* is a plain package variable: the call reads it afresh at each check, and
\* nothing orders those reads with the writes of SetLimits.

\* how many times the call reads ebs
EbsReads == 4

\* a uint64 read as two 32-bit halves while it changes from b to a or back
torn(a, b) == SubSeq(a, 1, 4) \o SubSeq(b, 5, 8)

\* what an unsynchronised read of ebs can return when ebs has held the
\* values written during the call
visible(vals) == vals \cup {torn(a, b) : a, b \in vals}

\* merkle blocks announcing 100 bytes and 100,000,000 bytes, and a pong
ConcurrentFrames ==
  {Cat(legacyFrame(MainNet, c, l, TRUE, TRUE), honestFrame) :
     c \in {CmdMerkleBlock}, l \in {U(100), Mul(U(1000000), 100)}}
    \cup {Cat(legacyFrame(MainNet, CmdPong, U(8), TRUE, TRUE), honestFrame)}

reading == res.op = "reading"

\* a goroutine enters ReadMessageWithEncodingN
BeginRead(pver, bsvnet) ==
  /\ ~reading
  /\ r # << >>
  /\ reads < 1
  /\ reads' = reads + 1
  /\ res' = [op |-> "reading", in |-> r, pver |-> pver, bsvnet |-> bsvnet,
             written |-> {ebs}, seen |-> << >>]
  /\ UNCHANGED << ebs, externalHandler, r >>

\* another goroutine calls SetLimits while the call is under way
SetLimitsDuring(e) ==
  /\ reading
  /\ e # ebs
  /\ ebs' = e
  /\ res' = [res EXCEPT !.written = @ \cup {e}]
  /\ UNCHANGED << externalHandler, r, reads >>

\* the call reads ebs
ReadEbs ==
  /\ reading
  /\ Len(res.seen) < EbsReads
  /\ \E v \in visible(res.written) : res' = [res EXCEPT !.seen = Append(@, v)]
  /\ UNCHANGED << ebs, externalHandler, r, reads >>

\* the call returns
ReturnRead ==
  /\ reading
  /\ Len(res.seen) = EbsReads
  /\ \E out \in {ReadMessageSeeing(r, res.pver, res.bsvnet, res.seen,
                                   externalHandler, "fail")} :
       /\ r' = out.rest
       /\ res' = [op |-> "ReadMessage", in |-> res.in, pver |-> res.pver,
                  bsvnet |-> res.bsvnet, written |-> res.written,
                  seen |-> res.seen, out |-> out]
  /\ UNCHANGED << ebs, externalHandler, reads >>

InitConcurrent ==
  /\ InitPackage
  /\ r \in ConcurrentFrames
  /\ reads = 0
  /\ res = NoCall

NextConcurrent ==
  \/ /\ ~reading
     /\ reads = 0
     /\ \E e \in EbsValues : SetLimits(e)
  \/ BeginRead(ProtocolVersion, MainNet)
  \/ \E e \in EbsValues : SetLimitsDuring(e)
  \/ ReadEbs
  \/ ReturnRead

SpecConcurrent == InitConcurrent /\ [][NextConcurrent]_vars

----------------------------------------------------------------------------
\* Properties of reading.  A call of ReadMessage leaves in res what it was
\* given (in, pver, bsvnet, ebs, handlers) and what it did (out).

\* the last step was a ReadMessage call that got its 24 header bytes
headerRead == res.op = "ReadMessage" /\ res.out.step # "header"

\* the 24 header bytes the call was given, as four raw fields
rawLength == GetLE(Unpack(Take(Drop(res.in, U(16)), U(4))), 4)

rawCommand == TrimRight(Unpack(Take(Drop(res.in, U(4)), U(CommandSize))))

rawChecksum == Unpack(Take(Drop(res.in, U(20)), U(4)))

\* the header is the extended-format sentinel
isSentinel ==
  rawCommand = CmdExtMsg /\ rawLength = MaxUint32 /\ rawChecksum = << 0, 0, 0, 0 >>

\* the message type the call resolved the command to
resolved == makeEmptyMessage(res.out.hdr.command)

\* the five header checks, each on its own, on the header the call parsed
failsGlobal ==
  \/ Gt(res.out.hdr.length, maxMessagePayload(res.ebs))
  \/ Gt(res.out.hdr.extLength, maxMessagePayload(res.ebs))

failsMagic == res.out.hdr.magic # res.bsvnet

failsText == ~ValidString(res.out.hdr.command)

failsRegistry == resolved.err # NoErr

failsPerType ==
  \/ Gt(res.out.hdr.length, MaxPayloadLength(resolved.msg, res.pver, res.ebs))
  \/ Gt(res.out.hdr.extLength, MaxPayloadLength(resolved.msg, res.pver, res.ebs))

\* C1: whenever ReadMessage allocates a payload buffer, the announced length
\* has passed both ceilings, and the buffer is no larger than the global
\* ceiling maxMessagePayload() and no larger than the resolved type's
\* MaxPayloadLength(pver), whatever length the peer announced.
C1_BufferWithinBothCeilings ==
  (res.op = "ReadMessage" /\ res.out.alloc.made) =>
     /\ ~failsGlobal
     /\ ~failsRegistry
     /\ ~failsPerType
     /\ Le(res.out.alloc.size, maxMessagePayload(res.ebs))
     /\ Le(res.out.alloc.size,
           MaxPayloadLength(resolved.msg, res.pver, res.ebs))

\* a buffer of eight bytes was allocated for a pong
C1_BufferAllocated ==
  /\ res.op = "ReadMessage"
  /\ res.out.alloc.made
  /\ res.out.alloc.size = U(8)
  /\ res.out.hdr.command = CmdPong

\* C10: the header checks are applied in the order global ceiling, network
\* magic, command text, registry, per-type ceiling; the call returns at the
\* first check that fails, with that check's error; the external handler is
\* called and the payload buffer is made only when all five pass.
C10_ChecksInOrder ==
  headerRead =>
    /\ failsGlobal => res.out.step = "global"
    /\ (~failsGlobal /\ failsMagic) => res.out.step = "magic"
    /\ (~failsGlobal /\ ~failsMagic /\ failsText) => res.out.step = "command"
    /\ (~failsGlobal /\ ~failsMagic /\ ~failsText /\ failsRegistry)
         => res.out.step = "registry"
    /\ (~failsGlobal /\ ~failsMagic /\ ~failsText /\ ~failsRegistry
        /\ failsPerType) => res.out.step = "pertype"
    /\ res.out.step \in {"global", "magic", "command", "registry", "pertype"}
         => /\ res.out.err.kind = "MessageError"
            /\ res.out.msg = NilMsg
            /\ ~res.out.alloc.made
            /\ ~res.out.handler.called
    /\ (res.out.alloc.made \/ res.out.handler.called)
         => /\ ~failsGlobal
            /\ ~failsMagic
            /\ ~failsText
            /\ ~failsRegistry
            /\ ~failsPerType

\* a header that fails the global ceiling, the magic and the registry at
\* once was refused for the global ceiling
C10_SeveralFail ==
  /\ headerRead
  /\ failsGlobal
  /\ failsMagic
  /\ failsRegistry
  /\ res.out.step = "global"

\* the true length an extended-format frame carries after its inner command
rawExtLength == GetLE(Unpack(Take(Drop(res.in, U(36)), U(8))), 8)

\* where the frame the call was given ends: after the header and the
\* announced payload, or for an extended-format frame after the header, the
\* inner command, the true length and as many payload bytes
frameSize ==
  IF isSentinel
  THEN Add(U(MessageHeaderSize + CommandSize + 8), rawExtLength)
  ELSE Add(U(MessageHeaderSize), rawLength)

\* C2: a call refused for the magic, the command text, the registry or the
\* per-type ceiling leaves the stream at the first byte after the frame it
\* refused: it has consumed the header and the announced payload length,
\* the true length for an extended-format frame.
C2_RefusalConsumesFrame ==
  (headerRead /\ res.out.step \in {"magic", "command", "registry", "pertype"})
    => res.out.rest = Drop(res.in, frameSize)

\* C2 holds of frames that are not extended-format
C2_LegacyRefusalConsumesFrame ==
  (headerRead /\ ~isSentinel
   /\ res.out.step \in {"magic", "command", "registry", "pertype"})
    => res.out.rest = Drop(res.in, frameSize)

\* an extended-format pong followed by a verack: the call refused the first
\* frame and took the verack with it
C2_NextFrameSwallowed ==
  /\ headerRead
  /\ isSentinel
  /\ res.out.step = "registry"
  /\ Drop(res.in, frameSize) = honestFrame
  /\ res.out.rest = << >>

\* the bytes the call took off the stream after the 24 header bytes
payloadRead ==
  Take(Drop(res.in, U(MessageHeaderSize)), Sub(res.out.n, U(MessageHeaderSize)))

\* C3 as stated: for a frame that is not extended-format, a message is
\* returned only if the header's checksum is the first four bytes of the
\* hash of the payload bytes read, and a payload that was read into the
\* buffer and does not match gives a MessageError and no message.
C3_MessageOnlyIfChecksum ==
  (headerRead /\ ~isSentinel) =>
    /\ res.out.msg # NilMsg
         => res.out.hdr.checksum = DoubleHashB4(payloadRead)
    /\ (res.out.alloc.filled
        /\ res.out.hdr.checksum # DoubleHashB4(payloadRead))
         => /\ res.out.err.kind = "MessageError"
            /\ res.out.msg = NilMsg

\* C3, amended: the same when no external handler is registered for the
\* command; the message then comes with the payload that was hashed.
C3_ChecksumWithoutHandler ==
  (headerRead /\ ~isSentinel /\ res.out.hdr.command \notin res.handlers) =>
    /\ res.out.msg # NilMsg
         => /\ res.out.err = NoErr
            /\ res.out.payload = payloadRead
            /\ res.out.hdr.checksum = DoubleHashB4(payloadRead)
    /\ (res.out.alloc.filled
        /\ res.out.hdr.checksum # DoubleHashB4(payloadRead))
         => /\ res.out.err.kind = "MessageError"
            /\ res.out.msg = NilMsg
            /\ res.out.step = "checksum"

\* a pong came back with its eight payload bytes, checksum verified
C3_VerifiedPong ==
  /\ headerRead
  /\ ~isSentinel
  /\ res.out.hdr.command \notin res.handlers
  /\ res.out.step = "ok"
  /\ res.out.msg = NewMsgPong(pongNonce)
  /\ BLen(res.out.payload) = U(8)

\* a registered handler streamed a pong whose checksum field is wrong, and
\* its message was returned
C3_HandlerUnverified ==
  /\ headerRead
  /\ ~isSentinel
  /\ res.out.handler.called
  /\ res.out.msg # NilMsg
  /\ res.out.err = NoErr
  /\ res.out.hdr.checksum # DoubleHashB4(payloadRead)

\* the inner command an extended-format frame carries after its header
rawInner ==
  TrimRight(Unpack(Take(Drop(res.in, U(MessageHeaderSize)), U(CommandSize))))

\* C6: given the extended-format sentinel header, the call reads the inner
\* command and the true length that follow it on the stream, looks the inner
\* command up, reads as many payload bytes as the true length says, and
\* never fails the message for its checksum.
C6_ExtendedHeaderRead ==
  (headerRead /\ isSentinel) =>
    /\ res.out.hdr.command = rawInner
    /\ res.out.hdr.extLength = rawExtLength
    /\ res.out.step # "checksum"
    /\ res.out.alloc.made => res.out.alloc.size = rawExtLength
    /\ res.out.handler.called => res.out.handler.length = rawExtLength

\* an extended-format pong of eight bytes: the call took the 24 header bytes
\* only, and looked up the empty command
C6_InnerCommandNotRead ==
  /\ headerRead
  /\ isSentinel
  /\ rawInner = CmdPong
  /\ rawExtLength = U(8)
  /\ res.out.hdr.command = << >>
  /\ res.out.hdr.extLength = U64Zero
  /\ res.out.n = U(MessageHeaderSize)
  /\ res.out.step = "registry"

\* C7: for a header that is not the sentinel, the length field is the
\* payload size: past the header checks the buffer made, or the length
\* handed to the handler, is the length field, and a call that succeeds has
\* read that many payload bytes.
C7_LengthAuthoritative ==
  (headerRead /\ ~isSentinel) =>
    /\ res.out.alloc.made => res.out.alloc.size = rawLength
    /\ res.out.handler.called => res.out.handler.length = rawLength
    /\ res.out.err = NoErr => BLen(payloadRead) = rawLength

\* C7 holds of every length field below 0xffffffff
C7_LengthBelowSentinelValue ==
  (headerRead /\ ~isSentinel /\ rawLength # MaxUint32) =>
    /\ res.out.alloc.made => res.out.alloc.size = rawLength
    /\ res.out.handler.called => res.out.handler.length = rawLength
    /\ res.out.err = NoErr => BLen(payloadRead) = rawLength

\* a merkleblock header announcing 0xffffffff bytes under an excessive block
\* size of 5,000,000,000 passed both ceilings, and the call succeeded having
\* read no payload byte
C7_LengthFieldIgnored ==
  /\ headerRead
  /\ ~isSentinel
  /\ rawLength = MaxUint32
  /\ res.out.handler.called
  /\ ~failsGlobal
  /\ ~failsPerType
  /\ res.out.handler.length = U64Zero
  /\ res.out.err = NoErr
  /\ res.out.n = U(MessageHeaderSize)

\* the same header without a handler: a buffer of no bytes
C7_EmptyBuffer ==
  /\ headerRead
  /\ ~isSentinel
  /\ rawLength = MaxUint32
  /\ res.out.alloc.made
  /\ res.out.alloc.size = U64Zero

-----------------------------------------------------------------------------
\* Properties of writing.  A WriteMessage call leaves in res what it was
\* given and out: the count and error returned, the byte strings handed to
\* the writer, and the encoded payload.  ReadBack keeps that record as
\* res.write and adds what the read returned.

\* the encoded payload is within the global and the per-type ceiling
withinCeilings ==
  /\ ~GtAsInt(BLen(res.out.payload), maxMessagePayload(res.ebs))
  /\ ~Gt(BLen(res.out.payload), MaxPayloadLength(res.msg, res.pver, res.ebs))

\* C4: whenever WriteMessageN succeeds, ReadMessageN on the bytes written,
\* with the same version and network, succeeds and returns the message
\* written, its encoded payload, and the number of bytes written.
C4_RoundTrip ==
  res.op = "ReadBack" =>
    /\ res.out.err = NoErr
    /\ res.out.msg = res.write.msg
    /\ res.out.payload = res.write.out.payload
    /\ res.out.n = res.write.out.n

\* C4 holds of the variants the registry knows, for payloads below 2^32 bytes
C4_RegisteredRoundTrip ==
  (res.op = "ReadBack"
   /\ res.write.msg.type \in {"MsgVerAck", "MsgPong", "MsgMemPool",
                              "MsgMerkleBlock"}) =>
    /\ res.out.err = NoErr
    /\ res.out.msg = res.write.msg
    /\ res.out.payload = res.write.out.payload
    /\ res.out.n = res.write.out.n

\* a getcfheaders message was written without error, 61 bytes, and reading
\* them back failed at the registry
C4_GetCFHeadersNotReadBack ==
  /\ res.op = "ReadBack"
  /\ res.write.msg = NewMsgGetCFHeaders(0, U(1000), someHash)
  /\ res.write.out.n = U(MessageHeaderSize + 37)
  /\ res.out.step = "registry"
  /\ res.out.msg = NilMsg

\* C5: a payload of 2^32 bytes or more within both ceilings is written in
\* the extended form: one write holding a header with length 0xffffffff and
\* a zero checksum, the 8-byte true length after the inner command, and
\* then the payload.
C5_ExtendedFormWritten ==
  (res.op = "WriteMessage" /\ ~res.wnil /\ Len(Command(res.msg)) <= CommandSize
   /\ Le(TwoPow32, BLen(res.out.payload)) /\ withinCeilings) =>
    /\ res.out.err = NoErr
    /\ Len(res.out.writes) = 1
    /\ GetLE(Unpack(Take(Drop(res.out.writes[1], U(16)), U(4))), 4) = MaxUint32
    /\ Unpack(Take(Drop(res.out.writes[1], U(20)), U(4))) = << 0, 0, 0, 0 >>
    /\ GetLE(Unpack(Take(Drop(res.out.writes[1],
                              U(MessageHeaderSize + CommandSize)), U(8))), 8)
         = BLen(res.out.payload)
    /\ Drop(res.out.writes[1], U(MessageHeaderSize + CommandSize + 8))
         = res.out.payload

\* a payload of 2^32 bytes within both ceilings: nothing was written
C5_NothingWritten ==
  /\ res.op = "WriteMessage"
  /\ ~res.wnil
  /\ BLen(res.out.payload) = TwoPow32
  /\ withinCeilings
  /\ res.out.writes = << >>

\* C8: a call that returns an error has written nothing and returns the
\* count 0; a call that returns no error has handed the 24-byte header and
\* the whole payload to the writer in one Write, and returns 24 plus the
\* length of the payload.
C8_AllOrNothing ==
  res.op = "WriteMessage" =>
    /\ res.out.err # NoErr
         => /\ res.out.writes = << >>
            /\ res.out.n = U64Zero
    /\ res.out.err = NoErr
         => /\ Len(res.out.writes) = 1
            /\ BLen(Take(res.out.writes[1], U(MessageHeaderSize)))
                 = U(MessageHeaderSize)
            /\ Drop(res.out.writes[1], U(MessageHeaderSize)) = res.out.payload
            /\ res.out.n = Add(U(MessageHeaderSize), BLen(res.out.payload))

\* C8 holds of payloads of at most 0xffffffff bytes
C8_AllOrNothingBelow4G ==
  (res.op = "WriteMessage" /\ Le(BLen(res.out.payload), MaxUint32)) =>
    /\ res.out.err # NoErr
         => /\ res.out.writes = << >>
            /\ res.out.n = U64Zero
    /\ res.out.err = NoErr
         => /\ Len(res.out.writes) = 1
            /\ BLen(Take(res.out.writes[1], U(MessageHeaderSize)))
                 = U(MessageHeaderSize)
            /\ Drop(res.out.writes[1], U(MessageHeaderSize)) = res.out.payload
            /\ res.out.n = Add(U(MessageHeaderSize), BLen(res.out.payload))

\* a payload of 2^32 bytes: the call returned a nil error and the count 0
\* and the writer was never called
C8_NilErrorNoWrite ==
  /\ res.op = "WriteMessage"
  /\ BLen(res.out.payload) = TwoPow32
  /\ res.out.err = NoErr
  /\ res.out.n = U64Zero
  /\ res.out.writes = << >>

-----------------------------------------------------------------------------
\* Properties of the registry.  LookUp leaves in res the command it was
\* given and out, the message and the error makeEmptyMessage returned.

\* the variants whose Command method is written out above
CommandKnown ==
  {"MsgVerAck", "MsgPong", "MsgMemPool", "MsgGetCFHeaders", "MsgStreamAck",
   "MsgCreateStream", "MsgMerkleBlock"}

\* C9: for the command of every variant, getcfheaders, createstrm and
\* streamack among them, makeEmptyMessage returns no error and an empty
\* message of the variant whose command it is; for any other string it
\* returns an error and no message.
C9_RegistryTotal ==
  res.op = "makeEmptyMessage" =>
    /\ res.command \in CmdAll
         => /\ res.out.err = NoErr
            /\ res.out.msg # NilMsg
            /\ res.out.msg.type \in CommandKnown
                 => Command(res.out.msg) = res.command
    /\ res.command \notin CmdAll
         => /\ res.out.err # NoErr
            /\ res.out.msg = NilMsg

\* C9 holds of every command but getcfheaders, createstrm and streamack
C9_RegistryButThree ==
  res.op = "makeEmptyMessage" =>
    /\ res.command \in CmdAll \ {CmdGetCFHeaders, CmdCreateStream, CmdStreamAck}
         => /\ res.out.err = NoErr
            /\ res.out.msg # NilMsg
            /\ res.out.msg.type \in CommandKnown
                 => Command(res.out.msg) = res.command
    /\ res.command \notin CmdAll
         => /\ res.out.err # NoErr
            /\ res.out.msg = NilMsg

\* createstrm was looked up and came back unhandled
C9_CreateStreamUnhandled ==
  /\ res.op = "makeEmptyMessage"
  /\ res.command = CmdCreateStream
  /\ res.out.err = plainError("unhandled command")
  /\ res.out.msg = NilMsg

-----------------------------------------------------------------------------
\* The external handler.

\* the header passed all five checks
passesChecks ==
  /\ headerRead
  /\ ~failsGlobal
  /\ ~failsMagic
  /\ ~failsText
  /\ ~failsRegistry
  /\ ~failsPerType

\* the payload length the receive path goes by: the length field, or the
\* extended length of the header when the length field is 0xffffffff
effectiveLength ==
  IF res.out.hdr.length = MaxUint32 THEN res.out.hdr.extLength
  ELSE res.out.hdr.length

\* C11: when a handler is registered for the command of a header that passes
\* all checks, the handler is called with the stream as it stands after the
\* 24 header bytes, the effective payload length and the count 24; no
\* payload buffer is made and no checksum compared by ReadMessage; the
\* count, message, payload and error returned are the handler's, and the
\* stream is left as the handler left it.
C11_HandlerDelegation ==
  (passesChecks /\ res.out.hdr.command \in res.handlers) =>
    /\ res.out.handler.called
    /\ res.out.handler.r = Drop(res.in, U(MessageHeaderSize))
    /\ res.out.handler.length = effectiveLength
    /\ res.out.handler.sofar = U(MessageHeaderSize)
    /\ ~res.out.alloc.made
    /\ res.out.step = "handler"
    /\ res.out.n = res.out.handler.ret.n
    /\ res.out.msg = res.out.handler.ret.msg
    /\ res.out.payload = res.out.handler.ret.payload
    /\ res.out.err = res.out.handler.ret.err
    /\ res.out.rest = res.out.handler.ret.rest

\* a handler registered for merkleblock streamed eight payload bytes whose
\* checksum field is wrong, and its message and payload were returned
C11_HandlerStreamed ==
  /\ passesChecks
  /\ res.out.hdr.command = CmdMerkleBlock
  /\ res.out.hdr.command \in res.handlers
  /\ res.out.handler.length = U(8)
  /\ res.out.hdr.checksum # DoubleHashB4(payloadRead)
  /\ res.out.msg = [type |-> "external"]
  /\ res.out.payload # << >>
  /\ res.out.n = U(MessageHeaderSize + 8)

----------------------------------------------------------------------------
\* Properties of the message codecs.  A BsvEncode call leaves in res the
\* message, the version, the excessive block size and what it returned and
\* wrote (out); a Bsvdecode call leaves the receiver it was given (msg), the
\* bytes (s) and, in out, the error, the receiver, the reader and the
\* storage made.

codecCall == res.op \in {"BsvEncode", "Bsvdecode"}

\* the messages that are refused below a protocol version
GatedTypes ==
  {"MsgPong", "MsgMemPool", "MsgFilterClear", "MsgMerkleBlock",
   "MsgSendHeaders", "MsgFeeFilter"}

\* the versions at which a message of the type is to be refused
gateClosed(type, pver) ==
  CASE type = "MsgPong" -> pver <= BIP0031Version
    [] type = "MsgMemPool" -> pver < BIP0035Version
    [] type \in {"MsgFilterClear", "MsgMerkleBlock"} -> pver < BIP0037Version
    [] type = "MsgSendHeaders" -> pver < SendHeadersVersion
    [] type = "MsgFeeFilter" -> pver < FeeFilterVersion

\* the call was refused for its version
gateRefused ==
  /\ res.out.err # NoErr
  /\ res.out.err.kind = "MessageError"
  /\ res.out.err.why = "invalid for version"

\* C12: a BsvEncode or Bsvdecode of a version-gated message is refused for
\* its version, with a MessageError, exactly when pver <= BIP0031Version for
\* MsgPong, pver < BIP0035Version for MsgMemPool, pver < BIP0037Version for
\* MsgFilterClear and MsgMerkleBlock, pver < SendHeadersVersion for
\* MsgSendHeaders and pver < FeeFilterVersion for MsgFeeFilter; at every
\* other version the gate lets the call through.
C12_ExactGates ==
  (codecCall /\ res.msg.type \in GatedTypes) =>
    (gateRefused <=> gateClosed(res.msg.type, res.pver))

\* a pong was refused on decode at BIP0031Version itself, where <= and <
\* part ways
C12_PongRefusedAtThreshold ==
  /\ res.op = "Bsvdecode"
  /\ res.msg.type = "MsgPong"
  /\ res.pver = BIP0031Version
  /\ gateRefused

\* C13: a Bsvdecode refused for its version leaves the receiver as it was
\* and the reader with every byte it held; a BsvEncode refused for its
\* version writes no byte.
C13_GateRefusalTouchesNothing ==
  (codecCall /\ res.msg.type \in GatedTypes /\ gateRefused) =>
    IF res.op = "Bsvdecode"
    THEN res.out.msg = res.msg /\ res.out.rest = res.s
    ELSE res.out.out = << >>

\* eight bytes of a pong were handed to a zero-valued MsgPong at
\* BIP0031Version: the decode was refused, the nonce is still zero and the
\* eight bytes are still in the reader
C13_PongNonceStaysDefault ==
  /\ res.op = "Bsvdecode"
  /\ res.msg = emptyMessage("MsgPong")
  /\ res.s = PutLE(pongNonce, 8)
  /\ res.pver = BIP0031Version
  /\ gateRefused
  /\ res.out.msg.Nonce = U64Zero
  /\ BLen(res.out.rest) = U(8)

\* the number of elements in the bounded list of a message, and the most it
\* may hold under the excessive block size e
listLen(msg) ==
  IF msg.type = "MsgNotFound" THEN Div(BLen(msg.InvList), maxInvVectPayload)
  ELSE U(Len(msg.Hashes))

listMax(msg, e) ==
  IF msg.type = "MsgNotFound" THEN U(MaxInvPerMsg) ELSE maxTxPerBlock(e)

\* the list of a message with one more item at its end
withItem(msg) ==
  IF msg.type = "MsgNotFound" THEN [msg EXCEPT !.InvList = Cat(@, someInv)]
  ELSE [msg EXCEPT !.Hashes = Append(@, someHash)]

pastMaximum(msg, e) ==
  \/ Gt(listLen(msg), listMax(msg, e))
  \/ /\ msg.type = "MsgMerkleBlock"
     /\ Gt(BLen(msg.Flags), maxFlagsPerMerkleBlock(e))

\* C15: BsvEncode of a MsgNotFound holding more than MaxInvPerMsg vectors,
\* or of a MsgMerkleBlock holding more than maxTxPerBlock() hashes or more
\* than maxFlagsPerMerkleBlock() flag bytes, returns a MessageError and
\* writes no byte.
C15_EncodePastMaximumRefused ==
  (res.op = "BsvEncode" /\ isList(res.msg) /\ pastMaximum(res.msg, res.ebs)) =>
    /\ res.out.err.kind = "MessageError"
    /\ res.out.out = << >>

\* a MsgNotFound whose list was set to MaxInvPerMsg + 1 vectors was encoded
\* and refused for its count
C15_OneVectorTooMany ==
  /\ res.op = "BsvEncode"
  /\ res.msg.type = "MsgNotFound"
  /\ ~res.built
  /\ listLen(res.msg) = U(MaxInvPerMsg + 1)
  /\ res.out.err = messageError("MsgNotFound.BsvEncode",
                                "too many invvect in message")
  /\ res.out.out = << >>

\* a Bsvdecode of a list message that got past the version gate
listDecode ==
  /\ res.op = "Bsvdecode"
  /\ isList(res.msg)
  /\ res.msg.type = "MsgMerkleBlock" => res.pver >= BIP0037Version

\* the element count the payload declares: a varint at the start of a
\* notfound payload, and after the 80-byte header and the 4-byte
\* transaction count of a merkle block
declaredCount ==
  ReadVarInt(IF res.msg.type = "MsgNotFound" THEN res.s
             ELSE Drop(res.s, U(84)))

countDeclared ==
  /\ listDecode
  /\ res.msg.type = "MsgMerkleBlock" => Le(U(84), BLen(res.s))
  /\ declaredCount.err = NoErr

\* the flag-byte count a merkle block payload declares after its hashes
declaredFlags ==
  ReadVarInt(Drop(declaredCount.rest, Mul(declaredCount.val, HashSize)))

flagsDeclared ==
  /\ countDeclared
  /\ res.msg.type = "MsgMerkleBlock"
  /\ Le(declaredCount.val, maxTxPerBlock(res.ebs))
  /\ Lt(Mul(declaredCount.val, HashSize), BLen(declaredCount.rest))
  /\ declaredFlags.err = NoErr

\* C16: a Bsvdecode of a MsgNotFound or MsgMerkleBlock payload that
\* declares more elements than the maximum returns a MessageError with no
\* storage made and the reader standing right after the count; a
\* MsgMerkleBlock payload that declares more flag bytes than
\* maxFlagsPerMerkleBlock() returns a MessageError with no flags buffer made
\* and the reader standing right after the flag count.
C16_CountCheckedBeforeStorage ==
  /\ (countDeclared /\ Gt(declaredCount.val, listMax(res.msg, res.ebs))) =>
       /\ res.out.err.kind = "MessageError"
       /\ res.out.alloc = << >>
       /\ res.out.rest = declaredCount.rest
       /\ listLen(res.out.msg) = listLen(res.msg)
  /\ (flagsDeclared
      /\ Gt(declaredFlags.val, maxFlagsPerMerkleBlock(res.ebs))) =>
       /\ res.out.err.kind = "MessageError"
       /\ res.out.alloc = << declaredCount.val >>
       /\ res.out.rest = declaredFlags.rest
       /\ res.out.msg.Flags = << >>

\* a notfound payload declaring MaxInvPerMsg + 1 vectors, one vector behind
\* the count, was refused with that vector still in the reader
C16_NotFoundCountRefused ==
  /\ countDeclared
  /\ res.msg.type = "MsgNotFound"
  /\ declaredCount.val = U(MaxInvPerMsg + 1)
  /\ res.out.err.kind = "MessageError"
  /\ res.out.alloc = << >>
  /\ res.out.rest = someInv

\* a length is one an association ID of MsgCreateStream may have
idLengthAccepted(n) == Le(U(1), n) /\ Le(n, U(MaxAssociationIDLen))

\* the length the payload declares for its association ID
declaredID == ReadVarInt(res.s)

\* the errors with which Bsvdecode refuses an association ID
idRefusals ==
  {messageError("ReadVarBytes", "AssociationID"),
   messageError("MsgCreateStream.Bsvdecode", "association ID must not be empty")}

\* C17: MsgCreateStream.BsvEncode succeeds exactly for association IDs of 1
\* to 129 bytes, and otherwise returns a MessageError and writes nothing;
\* MsgCreateStream.Bsvdecode refuses the association ID, with a
\* MessageError, exactly when its declared length is 0 or more than 129, and
\* otherwise takes the declared bytes as the ID.
C17_CreateStreamIDLengths ==
  /\ (res.op = "BsvEncode" /\ res.msg.type = "MsgCreateStream") =>
       IF idLengthAccepted(BLen(res.msg.AssociationID))
       THEN res.out.err = NoErr
       ELSE res.out.err.kind = "MessageError" /\ res.out.out = << >>
  /\ (res.op = "Bsvdecode" /\ res.msg.type = "MsgCreateStream"
      /\ declaredID.err = NoErr
      /\ Le(declaredID.val, BLen(declaredID.rest))) =>
       IF idLengthAccepted(declaredID.val)
       THEN /\ res.out.err \notin idRefusals
            /\ res.out.msg.AssociationID = Take(declaredID.rest, declaredID.val)
            /\ res.ebs = defaultEbs => res.out.err = NoErr
       ELSE res.out.err \in idRefusals

\* a createstream payload with an empty association ID was refused for it
C17_EmptyIDRefusedOnDecode ==
  /\ res.op = "Bsvdecode"
  /\ res.msg.type = "MsgCreateStream"
  /\ declaredID.err = NoErr
  /\ declaredID.val = U64Zero
  /\ BLen(res.s) = U(8)
  /\ res.out.err = messageError("MsgCreateStream.Bsvdecode",
                                "association ID must not be empty")

\* C18: MsgStreamAck.BsvEncode and MsgStreamAck.Bsvdecode both refuse an
\* association ID longer than MaxAssociationIDLen (129) bytes and both take
\* any association ID of at most 129 bytes, the empty one included.
C18_StreamAckBoundedBothWays ==
  /\ (res.op = "BsvEncode" /\ res.msg.type = "MsgStreamAck") =>
       (res.out.err = NoErr
          <=> Le(BLen(res.msg.AssociationID), U(MaxAssociationIDLen)))
  /\ (res.op = "Bsvdecode" /\ res.msg.type = "MsgStreamAck"
      /\ declaredID.err = NoErr
      /\ Lt(declaredID.val, BLen(declaredID.rest))) =>
       (res.out.err = NoErr <=> Le(declaredID.val, U(MaxAssociationIDLen)))

\* C18, as the code has it: Bsvdecode refuses a declared length above 129
\* and takes every other, while BsvEncode writes an association ID of any
\* length.
C18_StreamAckBoundedOnDecodeOnly ==
  /\ (res.op = "BsvEncode" /\ res.msg.type = "MsgStreamAck") =>
       /\ res.out.err = NoErr
       /\ res.out.out = Cat(WriteVarBytes(res.msg.AssociationID),
                            Bytes(<< res.msg.StreamType >>))
  /\ (res.op = "Bsvdecode" /\ res.msg.type = "MsgStreamAck"
      /\ declaredID.err = NoErr
      /\ Lt(declaredID.val, BLen(declaredID.rest))) =>
       IF Le(declaredID.val, U(MaxAssociationIDLen))
       THEN /\ res.out.err = NoErr
            /\ res.out.msg.AssociationID = Take(declaredID.rest, declaredID.val)
       ELSE res.out.err = messageError("ReadVarBytes", "AssociationID")

\* a MsgStreamAck with a 130-byte association ID was encoded without error,
\* all 132 bytes of it
C18_LongIDEncoded ==
  /\ res.op = "BsvEncode"
  /\ res.msg.type = "MsgStreamAck"
  /\ BLen(res.msg.AssociationID) = U(MaxAssociationIDLen + 1)
  /\ res.out.err = NoErr
  /\ BLen(res.out.out) = U(MaxAssociationIDLen + 3)

\* a Bsvdecode of an auth response payload, the length it declares for the
\* public key, and the length it declares for the signature, which follows
\* the key and the 8-byte nonce
authDecode == res.op = "Bsvdecode" /\ res.msg.type = "MsgAuthresp"

declaredKey == ReadVarInt(res.s)

keyDeclared == authDecode /\ declaredKey.err = NoErr

declaredSignature ==
  ReadVarInt(Drop(declaredKey.rest, Add(declaredKey.val, U(8))))

signatureDeclared ==
  /\ keyDeclared
  /\ Lt(Add(declaredKey.val, U(8)), BLen(declaredKey.rest))
  /\ declaredSignature.err = NoErr

\* C19: MsgAuthresp.Bsvdecode refuses a public key longer than
\* SECP256K1_COMP_PUB_KEY_SIZE_IN_BYTES (33) and a signature longer than
\* SECP256K1_DER_SIGN_MAX_SIZE_IN_BYTES (72).
C19_FieldsBoundedByOwnConstant ==
  /\ (keyDeclared
      /\ Gt(declaredKey.val, U(SECP256K1_COMP_PUB_KEY_SIZE_IN_BYTES))) =>
       res.out.err.kind = "MessageError"
  /\ (signatureDeclared
      /\ Le(declaredKey.val, U(SECP256K1_COMP_PUB_KEY_SIZE_IN_BYTES))
      /\ Gt(declaredSignature.val, U(SECP256K1_DER_SIGN_MAX_SIZE_IN_BYTES))) =>
       res.out.err.kind = "MessageError"

\* C19, as the code has it: each of the two fields is refused exactly when
\* its declared length exceeds MaxPayloadLength(), the size of a whole
\* maximal payload (121), and is taken at any length up to that.
C19_FieldsBoundedByPayloadLength ==
  /\ keyDeclared =>
       IF Gt(declaredKey.val, MaxPayloadLength(res.msg, res.pver, res.ebs))
       THEN res.out.err = messageError("ReadVarBytes", "challenge")
       ELSE Le(declaredKey.val, BLen(declaredKey.rest)) =>
              /\ res.out.msg.PublicKey = Take(declaredKey.rest, declaredKey.val)
              /\ res.out.msg.PublicKeyLength = declaredKey.val
  /\ (signatureDeclared
      /\ Le(declaredKey.val, MaxPayloadLength(res.msg, res.pver, res.ebs))) =>
       IF Gt(declaredSignature.val,
             MaxPayloadLength(res.msg, res.pver, res.ebs))
       THEN res.out.err = messageError("ReadVarBytes", "challenge")
       ELSE Le(declaredSignature.val, BLen(declaredSignature.rest)) =>
              /\ res.out.err = NoErr
              /\ res.out.msg.Signature =
                   Take(declaredSignature.rest, declaredSignature.val)

\* a payload with a 34-byte public key and a 72-byte signature was decoded
\* without error
C19_LongKeyAccepted ==
  /\ signatureDeclared
  /\ declaredKey.val = U(SECP256K1_COMP_PUB_KEY_SIZE_IN_BYTES + 1)
  /\ declaredSignature.val = U(SECP256K1_DER_SIGN_MAX_SIZE_IN_BYTES)
  /\ res.out.err = NoErr
  /\ res.out.msg.PublicKeyLength = U(SECP256K1_COMP_PUB_KEY_SIZE_IN_BYTES + 1)
  /\ BLen(res.out.msg.PublicKey) = U(SECP256K1_COMP_PUB_KEY_SIZE_IN_BYTES + 1)
  /\ res.out.rest = << >>

\* the bytes of an auth response produced by BsvEncode were decoded at the
\* version they were encoded at
authRoundTrip == authDecode /\ res.sent # NilMsg

\* C20: for every MsgAuthresp m built by NewMsgAuthresp and every protocol
\* version, Bsvdecode of the bytes m.BsvEncode produced succeeds and yields
\* a message equal to m.
C20_AuthrespRoundTrip ==
  authRoundTrip => (res.out.err = NoErr /\ res.out.msg = res.sent)

\* C20, as the code has it: BsvEncode writes each length as four bytes,
\* Bsvdecode reads each as a varint, so the key is taken from inside the
\* length field and a message with a nonce other than zero never comes back.
C20_EncodedFormNotReadBack ==
  authRoundTrip =>
    /\ res.s = Cat(Cat(Cat(Cat(PutLE(res.sent.PublicKeyLength, 4),
                               res.sent.PublicKey),
                           PutLE(res.sent.ClientNonce, 8)),
                       PutLE(res.sent.SignatureLength, 4)),
                   res.sent.Signature)
    /\ keyDeclared
    /\ declaredKey.val = GetLE(SubSeq(res.sent.PublicKeyLength, 1, 1), 1)
    /\ res.out.msg.PublicKey = Take(Drop(res.s, U(1)), declaredKey.val)
    /\ res.sent.ClientNonce # U64Zero => res.out.msg # res.sent

\* the encoding of an auth response with a 33-byte key and a 72-byte
\* signature was decoded without error into a key that starts with the
\* three high bytes of the length, another nonce and no signature
C20_KeyReadFromLengthField ==
  /\ authRoundTrip
  /\ res.pver = ProtocolVersion
  /\ res.sent = NewMsgAuthresp(someKey, someSignature, pongNonce)
  /\ res.out.err = NoErr
  /\ Take(res.out.msg.PublicKey, U(3)) = Rep(0, U(3))
  /\ res.out.msg.PublicKey # res.sent.PublicKey
  /\ res.out.msg.ClientNonce # res.sent.ClientNonce
  /\ res.out.msg.Signature = << >>

\* the bytes a BsvEncode produced without error were decoded, at the version
\* they were encoded at, into a zero-valued message of the same variant
roundTrip == res.op = "Bsvdecode" /\ res.sent # NilMsg

RoundTripTypes ==
  {"MsgPong", "MsgFeeFilter", "MsgGetCFHeaders", "MsgGetCFCheckpt",
   "MsgNotFound", "MsgMerkleBlock", "MsgCreateStream", "MsgStreamAck"}

\* C21: for every MsgPong, MsgFeeFilter, MsgGetCFHeaders, MsgGetCFCheckpt,
\* MsgNotFound, MsgMerkleBlock, MsgCreateStream and MsgStreamAck that
\* BsvEncode accepts at a version, Bsvdecode of the encoded bytes at that
\* version succeeds and yields an equal message.
C21_RoundTripRemaining ==
  (roundTrip /\ res.sent.type \in RoundTripTypes) =>
    (res.out.err = NoErr /\ res.out.msg = res.sent)

\* C21, as the code has it: the round trip holds for these variants but for
\* a MsgStreamAck with an association ID longer than MaxAssociationIDLen,
\* which BsvEncode writes and Bsvdecode refuses, and for a MsgCreateStream
\* whose policy name is longer than the global payload ceiling.
C21_RoundTripButLongID ==
  (/\ roundTrip
   /\ res.sent.type \in RoundTripTypes
   /\ ~(/\ res.sent.type = "MsgStreamAck"
        /\ Gt(BLen(res.sent.AssociationID), U(MaxAssociationIDLen)))
   /\ ~(/\ res.sent.type = "MsgCreateStream"
        /\ Gt(BLen(res.sent.StreamPolicyName), maxMessagePayload(res.ebs)))) =>
    (res.out.err = NoErr /\ res.out.msg = res.sent)

\* the 132 bytes BsvEncode wrote for a MsgStreamAck with a 130-byte
\* association ID were refused by Bsvdecode
C21_StreamAckNotReadBack ==
  /\ roundTrip
  /\ res.sent = NewMsgStreamAck(idOf(MaxAssociationIDLen + 1), 1)
  /\ res.pver = ProtocolVersion
  /\ res.ebs = defaultEbs
  /\ BLen(res.s) = U(MaxAssociationIDLen + 3)
  /\ res.out.err = messageError("ReadVarBytes", "AssociationID")

----------------------------------------------------------------------------
\* Properties of the derived limits.  Numbers beyond 64 bits are a pair: hi
\* times 2^64 plus the uint64 lo.

\* what is carried out of the eighth digit when the uint64 a is multiplied
\* by k
RECURSIVE carryOut(_, _, _, _)
carryOut(a, k, i, carry) ==
  IF i > 8 THEN carry
  ELSE carryOut(a, k, i + 1, ((a[i] * k) + carry) \div 256)

\* a times k, in full
product(a, k) == [hi |-> carryOut(a, k, 1, 0), lo |-> Mul(a, k)]

TwoMiB == 2097152

\* the limits in force were read
limitsRead == res.op = "limits"

\* C22: after SetLimits(ebs), for any uint64 ebs, maxMessagePayload() is
\* floor(ebs / 1,000,000) times 2,097,152, the latest SetLimits call
\* deciding.
C22_CeilingIsExactProduct ==
  limitsRead =>
    /\ res.ebs = ebs
    /\ product(Div(res.ebs, 1000000), TwoMiB).hi = 0
    /\ res.maxMessagePayload = product(Div(res.ebs, 1000000), TwoMiB).lo

\* C22, as the code has it: maxMessagePayload() is that product modulo
\* 2^64, and the product itself when floor(ebs / 1,000,000) is below 2^43.
C22_CeilingIsProductMod64 ==
  limitsRead =>
    /\ res.ebs = ebs
    /\ res.maxMessagePayload = product(Div(res.ebs, 1000000), TwoMiB).lo
    /\ Lt(Div(res.ebs, 1000000), Pow2(43)) =>
         product(Div(res.ebs, 1000000), TwoMiB).hi = 0

\* after SetLimits(2^64 - 1) the product needs more than 64 bits and the
\* ceiling is what is left of it
C22_CeilingWrapped ==
  /\ limitsRead
  /\ res.ebs = MaxUint64
  /\ product(Div(res.ebs, 1000000), TwoMiB).hi = 2
  /\ res.maxMessagePayload = product(Div(res.ebs, 1000000), TwoMiB).lo

\* C30: maxFlagsPerMerkleBlock() is maxTxPerBlock() / 8 plus one, so that
\* the flag bytes allowed hold one bit for each of maxTxPerBlock()
\* transactions.
C30_FlagsCoverEveryTx ==
  limitsRead =>
    /\ res.maxFlagsPerMerkleBlock = Add(Div(res.maxTxPerBlock, 8), U(1))
    /\ Le(res.maxTxPerBlock, Mul(res.maxFlagsPerMerkleBlock, 8))

\* C30, as the code has it: maxFlagsPerMerkleBlock() is maxTxPerBlock() / 8
\* rounded down, with nothing added.
C30_FlagsRoundedDown ==
  limitsRead =>
    /\ res.maxFlagsPerMerkleBlock = Div(res.maxTxPerBlock, 8)
    /\ Lt(Sub(res.maxTxPerBlock, U(8)), Mul(res.maxFlagsPerMerkleBlock, 8))
         \/ Lt(res.maxTxPerBlock, U(8))

\* under the default excessive block size 3,200,001 transactions are allowed
\* and 400,000 flag bytes, one bit short
C30_OneBitShort ==
  /\ limitsRead
  /\ res.ebs = defaultEbs
  /\ res.maxTxPerBlock = U(3200001)
  /\ res.maxFlagsPerMerkleBlock = U(400000)
  /\ Lt(Mul(res.maxFlagsPerMerkleBlock, 8), res.maxTxPerBlock)

----------------------------------------------------------------------------
\* Properties of variable length integers.

\* the bytes written for v are the marker and the low k bytes of v, low byte
\* first
writtenAs(bytes, marker, v, k) == Unpack(bytes) = marker \o SubSeq(v, 1, k)

\* the documented form of v
documentedForm(bytes, v) ==
  IF Lt(v, U(253)) THEN writtenAs(bytes, << >>, v, 1)
  ELSE IF Le(v, U(65535)) THEN writtenAs(bytes, << 253 >>, v, 2)
  ELSE IF Le(v, MaxUint32) THEN writtenAs(bytes, << 254 >>, v, 4)
  ELSE writtenAs(bytes, << 255 >>, v, 8)

\* C24: ReadVarInt of the bytes WriteVarInt wrote for v returns v, for every
\* uint64 v, and the bytes are 1, 3, 5 or 9 long: v itself below 0xfd, else
\* the marker 0xfd, 0xfe or 0xff and v in 2, 4 or 8 little-endian bytes.
C24_VarIntRoundTrip ==
  /\ res.op = "WriteVarInt" => documentedForm(res.out, res.val)
  /\ res.op = "ReadVarInt" =>
       /\ documentedForm(res.s, res.val)
       /\ res.out.err = NoErr
       /\ res.out.val = res.val
       /\ res.out.rest = << >>

\* 0xfd itself is written behind the marker 0xfd and read back
C24_MarkerValueReadBack ==
  /\ res.op = "ReadVarInt"
  /\ res.val = U(253)
  /\ Unpack(res.s) = << 253, 253, 0 >>
  /\ res.out.val = U(253)

----------------------------------------------------------------------------
\* Properties of the registry.

----------------------------------------------------------------------------
\* Properties of the returned byte count.

\* the bytes a ReadMessage call took off the reader
consumed == Sub(BLen(res.in), BLen(res.out.rest))

\* the steps that return after discardInput
DiscardSteps == {"magic", "command", "registry", "pertype"}

\* what discardInput took: the announced length, or what the reader had
\* behind the header
discarded ==
  IF Le(res.out.hdr.length, Sub(BLen(res.in), U(MessageHeaderSize)))
  THEN res.out.hdr.length
  ELSE Sub(BLen(res.in), U(MessageHeaderSize))

\* C26: on every return path the count ReadMessageN returns is the number
\* of bytes the call took off the reader.
C26_CountIsConsumption ==
  res.op = "ReadMessage" => res.out.n = consumed

\* C26, as the code has it: the count is the number of bytes taken on every
\* return path but those behind discardInput, where it is the 24 header
\* bytes while the reader has lost the discarded bytes as well.
C26_CountOmitsDiscarded ==
  res.op = "ReadMessage" =>
    /\ res.out.step \notin DiscardSteps => res.out.n = consumed
    /\ res.out.step \in DiscardSteps =>
         /\ res.out.n = U(MessageHeaderSize)
         /\ consumed = Add(U(MessageHeaderSize), discarded)

\* a frame of the other network with a payload: 24 is returned and the
\* payload is gone from the reader too
C26_DiscardedUncounted ==
  /\ res.op = "ReadMessage"
  /\ res.out.step = "magic"
  /\ res.out.n = U(MessageHeaderSize)
  /\ Gt(consumed, res.out.n)

----------------------------------------------------------------------------
\* Properties of discardInput.

\* C27: discardInput(r, n) returns after at most floor(n / 10240) + 1 reads,
\* makes no buffer of more than 10,240 bytes, and takes exactly n bytes off a
\* reader that holds at least n.
C27_DiscardBounded ==
  res.op = "discardInput" =>
    /\ res.out.reads <= Small(Div(res.n, 10240)) + 1
    /\ \A size \in res.out.bufs : Le(size, U(10240))
    /\ Le(res.n, BLen(res.r)) =>
         /\ res.out.rest = Drop(res.r, res.n)
         /\ BLen(res.out.rest) = Sub(BLen(res.r), res.n)
    /\ res.out.rest = discardInput(res.r, res.n)
    /\ r = res.out.rest

\* two chunks and one byte are discarded in three reads from a reader that
\* holds more
C27_ThreeReads ==
  /\ res.op = "discardInput"
  /\ res.n = U((2 * discardChunk) + 1)
  /\ BLen(res.r) = U(40000)
  /\ res.out.reads = 3
  /\ res.out.bufs = {U(discardChunk), U(1)}
  /\ BLen(r) = U(40000 - ((2 * discardChunk) + 1))

----------------------------------------------------------------------------
\* Properties of the encoded length.

\* a WriteMessage call on a message of the package whose encoder accepted it
encoderAccepted ==
  /\ res.op = "WriteMessage"
  /\ ~res.wnil
  /\ res.msg.type # "fakeMessage"
  /\ BsvEncode(res.msg, res.pver, res.ebs).err = NoErr

encodedLength == BLen(BsvEncode(res.msg, res.pver, res.ebs).out)

typeCeilingError ==
  messageError("WriteMessage", "payload above the type's maximum")

\* the variants whose encoder writes a field of any length
UnboundedEncoders == {"MsgStreamAck", "MsgCreateStream", "MsgMerkleBlock"}

\* C28: what a successful BsvEncode produced is at most
\* MaxPayloadLength(pver) long, so WriteMessage does not refuse on the
\* ceiling of the type a message that its encoder accepted.
C28_EncodedWithinTypeCeiling ==
  encoderAccepted =>
    /\ Le(encodedLength, MaxPayloadLength(res.msg, res.pver, res.ebs))
    /\ res.out.err # typeCeilingError

\* C28, as the code has it: that holds of the variants whose encoder writes
\* fixed-width fields only; a MsgStreamAck or a MsgCreateStream is encoded
\* whatever the length of its ID or policy name, and WriteMessage refuses it
\* exactly when the bytes exceed the ceiling of the type.
C28_CeilingEnforcedByWriteMessage ==
  encoderAccepted =>
    /\ res.msg.type \notin UnboundedEncoders =>
         Le(encodedLength, MaxPayloadLength(res.msg, res.pver, res.ebs))
    /\ res.out.err = typeCeilingError <=>
         /\ ~GtAsInt(encodedLength, maxMessagePayload(res.ebs))
         /\ Gt(encodedLength, MaxPayloadLength(res.msg, res.pver, res.ebs))

\* a stream acknowledgement with an ID of 138 bytes is encoded in 140 bytes
\* and refused by WriteMessage on the 139-byte ceiling of its type
C28_StreamAckRefusedOnWrite ==
  /\ encoderAccepted
  /\ res.msg.type = "MsgStreamAck"
  /\ encodedLength = U(140)
  /\ MaxPayloadLength(res.msg, res.pver, res.ebs) = U(139)
  /\ res.out.err = typeCeilingError
  /\ res.out.writes = << >>

----------------------------------------------------------------------------
\* Properties of a list message over time.

\* a list message that only its constructor and add calls have touched
heldList == res.op \in {"New", "Add"} /\ isList(res.msg) /\ res.built

\* a list message as Bsvdecode filled it
decodedList ==
  res.op = "Bsvdecode" /\ res.out.err = NoErr /\ isList(res.out.msg)

\* C25: after construction, add calls, encoding, decoding and SetLimits
\* calls, the list of a bounded-list message is no longer than the maximum
\* now in force for it.
C25_ListWithinCurrentMaximum ==
  /\ heldList => Le(listLen(res.msg), listMax(res.msg, ebs))
  /\ decodedList => Le(listLen(res.out.msg), listMax(res.out.msg, ebs))

\* C25, as the code has it: the list is within the maximum that was in
\* force when the last item was added or when it was decoded; only the
\* fixed maximum of MsgNotFound holds at all times.
C25_ListWithinMaximumWhenAdded ==
  /\ (heldList /\ res.msg.type = "MsgNotFound") =>
       Le(listLen(res.msg), U(MaxInvPerMsg))
  /\ (heldList /\ res.op = "Add" /\ res.err = NoErr) =>
       Le(listLen(res.msg), listMax(res.msg, res.ebs))
  /\ decodedList => Le(listLen(res.out.msg), listMax(res.out.msg, res.ebs))

\* four hashes were added under the default limits and SetLimits(20) then
\* lowered the maximum to three
C25_MaximumLoweredBelowList ==
  /\ heldList
  /\ res.op = "Add"
  /\ res.msg.type = "MsgMerkleBlock"
  /\ res.ebs = defaultEbs
  /\ ebs = U(20)
  /\ Len(res.msg.Hashes) = 4
  /\ maxTxPerBlock(ebs) = U(3)

----------------------------------------------------------------------------
\* Properties of a call that runs while the limits are set.

\* a call returned that ran while SetLimits was called
returned == res.op = "ReadMessage"

\* the call as it would have run with e in force throughout
atomicRun(e) ==
  ReadMessageWithEncodingN(res.in, res.pver, res.bsvnet, e, externalHandler,
                           "fail")

\* C23: a ReadMessage call that runs concurrently with SetLimits behaves as
\* if all its limit checks were made against one value of the excessive
\* block size, the one before or the one after.
C23_OneValuePerCall ==
  returned => \E e \in res.written : res.out = atomicRun(e)

\* C23, as the code has it: every check of the call reads the variable
\* again; the call is the atomic one when no SetLimits ran during it, and
\* otherwise each check may have used a different value.
C23_OneValuePerCheck ==
  returned =>
    /\ \A i \in 1..EbsReads : res.seen[i] \in visible(res.written)
    /\ res.out = ReadMessageSeeing(res.in, res.pver, res.bsvnet, res.seen,
                                   externalHandler, "fail")
    /\ (\A i \in 1..EbsReads : res.seen[i] = res.seen[1]) =>
         res.out = atomicRun(res.seen[1])

\* a merkle block of 100,000,000 bytes passed the global check under the
\* large limits and was refused by the check of its type under the default
\* ones, which neither limit does by itself
C23_ChecksUnderDifferentLimits ==
  /\ returned
  /\ res.written = {defaultEbs, largeEbs}
  /\ res.seen = << largeEbs, largeEbs, defaultEbs, defaultEbs >>
  /\ res.out.step = "pertype"
  /\ atomicRun(defaultEbs).step = "global"
  /\ atomicRun(largeEbs).step = "ok"

====
